---- MODULE Spec2Model ----
(***************************************************************************)
(* Model of the AssetPicker signal engine (src/src/rsi.py,                 *)
(* src/src/indicators.py).  The indicator functions are pure; each is an   *)
(* operator computed the way the Python code computes it, and each         *)
(* component has a specification whose initial states draw the inputs      *)
(* from bounded sets and whose actions call the functions.                 *)
(*                                                                         *)
(* Python floats are modelled as exact rationals [n, d] in lowest terms    *)
(* with d > 0; the record with d = 0 stands for a raised                   *)
(* ZeroDivisionError and is absorbing for every arithmetic operator.       *)
(***************************************************************************)
EXTENDS Integers, Sequences, FiniteSets, TLC

VARIABLES closes, period, rsi, rsi_history,
          factors, score,
          lc_rsi_history, extreme_threshold, is_oversold, lifecycle,
          price_history, dv_rsi_history, lookback, dv_divergence,
          daily_divergence, weekly_divergence, divergence_score,
          coins, sector_rsi, sector_momentum,
          btc_weekly_rsi_history, regime,
          vol_price_history, vol_period, volatility,
          zs_values, zs_lookback, zscore_info,
          coin_returns, btc_returns, coin_rsi, btc_rsi, beta_info,
          price_points, closes_4h, closes_12h, closes_3d,
          acc_series, rsi_acceleration, price_acceleration, obv_acceleration,
          det_call, det_result,
          hst_closes, hst_period, hst_rsi, hst_history, hst_app_history, hst_nested_history,
          coin_ids, market_lookup, charts, hourly_cache, data_file, session, now, pc, run

rsiVars == <<closes, period, rsi, rsi_history>>

oppVars == <<factors, score>>

lifeVars == <<lc_rsi_history, extreme_threshold, is_oversold, lifecycle>>

divVars == <<price_history, dv_rsi_history, lookback, dv_divergence>>

dscVars == <<daily_divergence, weekly_divergence, divergence_score>>

secVars == <<coins, sector_rsi, sector_momentum>>

regVars == <<btc_weekly_rsi_history, regime>>

volVars == <<vol_price_history, vol_period, volatility>>

zsVars == <<zs_values, zs_lookback, zscore_info>>

betaVars == <<coin_returns, btc_returns, coin_rsi, btc_rsi, beta_info>>

aggVars == <<price_points, closes_4h, closes_12h, closes_3d>>

accVars == <<acc_series, rsi_acceleration, price_acceleration, obv_acceleration>>

detVars == <<det_call, det_result>>

hstVars == <<hst_closes, hst_period, hst_rsi, hst_history, hst_app_history, hst_nested_history>>

refVars == <<coin_ids, market_lookup, charts, hourly_cache, data_file, session, now, pc, run>>

vars == <<rsiVars, oppVars, lifeVars, divVars, dscVars, secVars, regVars,
          volVars, zsVars, betaVars, aggVars, accVars, detVars, hstVars,
          refVars>>

\* what a call of one component leaves alone: the other components
RsiFrame == UNCHANGED <<oppVars, lifeVars, divVars, dscVars, secVars,
                        regVars, volVars, zsVars, betaVars, aggVars, accVars,
                        detVars, hstVars, refVars>>

OppFrame == UNCHANGED <<rsiVars, lifeVars, divVars, dscVars, secVars,
                        regVars, volVars, zsVars, betaVars, aggVars, accVars,
                        detVars, hstVars, refVars>>

LifeFrame == UNCHANGED <<rsiVars, oppVars, divVars, dscVars, secVars,
                         regVars, volVars, zsVars, betaVars, aggVars,
                         accVars, detVars, hstVars, refVars>>

DivFrame == UNCHANGED <<rsiVars, oppVars, lifeVars, dscVars, secVars,
                        regVars, volVars, zsVars, betaVars, aggVars, accVars,
                        detVars, hstVars, refVars>>

DscFrame == UNCHANGED <<rsiVars, oppVars, lifeVars, divVars, secVars,
                        regVars, volVars, zsVars, betaVars, aggVars, accVars,
                        detVars, hstVars, refVars>>

SecFrame == UNCHANGED <<rsiVars, oppVars, lifeVars, divVars, dscVars,
                        regVars, volVars, zsVars, betaVars, aggVars, accVars,
                        detVars, hstVars, refVars>>

RegFrame == UNCHANGED <<rsiVars, oppVars, lifeVars, divVars, dscVars,
                        secVars, volVars, zsVars, betaVars, aggVars, accVars,
                        detVars, hstVars, refVars>>

VolFrame == UNCHANGED <<rsiVars, oppVars, lifeVars, divVars, dscVars,
                        secVars, regVars, zsVars, betaVars, aggVars, accVars,
                        detVars, hstVars, refVars>>

ZsFrame == UNCHANGED <<rsiVars, oppVars, lifeVars, divVars, dscVars, secVars,
                       regVars, volVars, betaVars, aggVars, accVars, detVars,
                       hstVars, refVars>>

BetaFrame == UNCHANGED <<rsiVars, oppVars, lifeVars, divVars, dscVars,
                         secVars, regVars, volVars, zsVars, aggVars, accVars,
                         detVars, hstVars, refVars>>

AggFrame == UNCHANGED <<rsiVars, oppVars, lifeVars, divVars, dscVars,
                        secVars, regVars, volVars, zsVars, betaVars, accVars,
                        detVars, hstVars, refVars>>

AccFrame == UNCHANGED <<rsiVars, oppVars, lifeVars, divVars, dscVars,
                        secVars, regVars, volVars, zsVars, betaVars, aggVars,
                        detVars, hstVars, refVars>>

DetFrame == UNCHANGED <<rsiVars, oppVars, lifeVars, divVars, dscVars,
                        secVars, regVars, volVars, zsVars, betaVars, aggVars,
                        accVars, hstVars, refVars>>

HstFrame == UNCHANGED <<rsiVars, oppVars, lifeVars, divVars, dscVars,
                        secVars, regVars, volVars, zsVars, betaVars, aggVars,
                        accVars, detVars, refVars>>

RefFrame == UNCHANGED <<rsiVars, oppVars, lifeVars, divVars, dscVars,
                        secVars, regVars, volVars, zsVars, betaVars, aggVars,
                        accVars, detVars, hstVars>>

----------------------------------------------------------------------------
(* Bounds of the RSI component *)

MaxLen == 5

MaxClose == 3

MaxPeriod == 3

----------------------------------------------------------------------------
(* Exact rational arithmetic standing for Python float arithmetic *)

Abs(x) == IF x < 0 THEN -x ELSE x

Max(a, b) == IF a >= b THEN a ELSE b

Min(a, b) == IF a <= b THEN a ELSE b

RECURSIVE Gcd(_, _)
Gcd(a, b) == IF b = 0 THEN a ELSE Gcd(b, a % b)

Raised == [n |-> 0, d |-> 0]

IsRaised(x) == x.d = 0

Rat(n, d) ==
    IF d = 0 THEN Raised
    ELSE LET g == Gcd(Abs(n), Abs(d))
             s == IF d < 0 THEN -1 ELSE 1
         IN  [n |-> (s * n) \div g, d |-> (s * d) \div g]

Num(k) == [n |-> k, d |-> 1]

RAdd(a, b) ==
    IF IsRaised(a) \/ IsRaised(b) THEN Raised
    ELSE Rat(a.n * b.d + b.n * a.d, a.d * b.d)

RSub(a, b) ==
    IF IsRaised(a) \/ IsRaised(b) THEN Raised
    ELSE Rat(a.n * b.d - b.n * a.d, a.d * b.d)

RMul(a, b) ==
    IF IsRaised(a) \/ IsRaised(b) THEN Raised
    ELSE Rat(a.n * b.n, a.d * b.d)

\* Python's a / b: raises ZeroDivisionError when b == 0
RDiv(a, b) ==
    IF IsRaised(a) \/ IsRaised(b) THEN Raised
    ELSE IF b.n = 0 THEN Raised
    ELSE Rat(a.n * b.d, a.d * b.n)

RLess(a, b) == a.n * b.d < b.n * a.d

RIsZero(a) == ~IsRaised(a) /\ a.n = 0

RECURSIVE SumSeq(_, _, _)
\* sum(xs[lo..hi]) over 1-based inclusive indices, summed by halves
SumSeq(xs, lo, hi) ==
    IF lo > hi THEN 0
    ELSE IF lo = hi THEN xs[lo]
    ELSE SumSeq(xs, lo, (lo + hi) \div 2) + SumSeq(xs, (lo + hi) \div 2 + 1, hi)

----------------------------------------------------------------------------
(* src/src/rsi.py *)

\* deltas = [closes[i] - closes[i-1] for i in range(1, len(closes))]
Deltas(cs) == [j \in 1..(Len(cs) - 1) |-> cs[j + 1] - cs[j]]

\* gains = [d if d > 0 else 0 for d in deltas]
Gains(ds) == [j \in 1..Len(ds) |-> IF ds[j] > 0 THEN ds[j] ELSE 0]

\* losses = [-d if d < 0 else 0 for d in deltas]
Losses(ds) == [j \in 1..Len(ds) |-> IF ds[j] < 0 THEN -ds[j] ELSE 0]

\* sum(xs[:p]) / p
FirstAverage(xs, p) == RDiv(Num(SumSeq(xs, 1, Min(p, Len(xs)))), Num(p))

\* avg = (avg * (period - 1) + x) / period
WilderSmooth(avg, x, p) == RDiv(RAdd(RMul(avg, Num(p - 1)), Num(x)), Num(p))

RsiNoGuard(avg_gain, avg_loss) ==
    LET rs == RDiv(avg_gain, avg_loss)
    IN  RSub(Num(100), RDiv(Num(100), RAdd(Num(1), rs)))

\* if avg_loss == 0: 100.0 else 100 - (100 / (1 + avg_gain / avg_loss))
RsiFromAverages(avg_gain, avg_loss) ==
    IF RIsZero(avg_loss) THEN Num(100)
    ELSE LET rs == RDiv(avg_gain, avg_loss)
         IN  RSub(Num(100), RDiv(Num(100), RAdd(Num(1), rs)))

RECURSIVE SmoothedAverage(_, _, _)
\* the running average after the loop body has consumed xs[i]
\* (1-based; i = p is the seed average)
SmoothedAverage(xs, p, i) ==
    IF i <= p THEN FirstAverage(xs, p)
    ELSE WilderSmooth(SmoothedAverage(xs, p, i - 1), xs[i], p)

\* Result records: kind "None" is Python's None, "raise" an exception
RsiNone == [kind |-> "None", val |-> Num(0)]

RsiPending == [kind |-> "pending", val |-> Num(0)]

RsiResult(v) == [kind |-> IF IsRaised(v) THEN "raise" ELSE "value", val |-> v]

calculate_rsi(cs, p) ==
    IF Len(cs) < p + 1 THEN RsiNone
    ELSE LET deltas == Deltas(cs)
             gains  == Gains(deltas)
             losses == Losses(deltas)
             avg_gain == SmoothedAverage(gains, p, Len(gains))
             avg_loss == SmoothedAverage(losses, p, Len(losses))
         IN  RsiResult(RsiFromAverages(avg_gain, avg_loss))

HistPending == [kind |-> "pending", vals |-> << >>]

HistResult(vs) ==
    [kind |-> IF \E k \in 1..Len(vs) : IsRaised(vs[k]) THEN "raise" ELSE "value",
     vals |-> vs]

RECURSIVE RsiHistoryLoop(_, _, _, _, _, _, _)
\* for i in range(period, len(gains)): smooth, then append one RSI value
RsiHistoryLoop(gains, losses, p, i, avg_gain, avg_loss, acc) ==
    IF i > Len(gains) THEN acc
    ELSE LET g == WilderSmooth(avg_gain, gains[i], p)
             l == WilderSmooth(avg_loss, losses[i], p)
         IN  RsiHistoryLoop(gains, losses, p, i + 1, g, l,
                            Append(acc, RsiFromAverages(g, l)))

RECURSIVE RsiHistoryLoopSkipFirst(_, _, _, _, _, _, _)
RsiHistoryLoopSkipFirst(gains, losses, p, i, avg_gain, avg_loss, acc) ==
    IF i >= Len(gains) THEN acc
    ELSE LET g == WilderSmooth(avg_gain, gains[i], p)
             l == WilderSmooth(avg_loss, losses[i], p)
         IN  RsiHistoryLoopSkipFirst(gains, losses, p, i + 1, g, l,
                                     Append(acc, RsiFromAverages(g, l)))

calculate_rsi_history_short(cs, p) ==
    IF Len(cs) < p + 1 THEN [kind |-> "value", vals |-> << >>]
    ELSE LET deltas == Deltas(cs)
             gains  == Gains(deltas)
             losses == Losses(deltas)
             avg_gain == FirstAverage(gains, p)
             avg_loss == FirstAverage(losses, p)
         IN  HistResult(RsiHistoryLoopSkipFirst(gains, losses, p, p + 1, avg_gain, avg_loss,
                                       <<RsiFromAverages(avg_gain, avg_loss)>>))

calculate_rsi_history(cs, p) ==
    IF Len(cs) < p + 1 THEN [kind |-> "value", vals |-> << >>]
    ELSE LET deltas == Deltas(cs)
             gains  == Gains(deltas)
             losses == Losses(deltas)
             avg_gain == FirstAverage(gains, p)
             avg_loss == FirstAverage(losses, p)
         IN  HistResult(RsiHistoryLoop(gains, losses, p, p + 1, avg_gain, avg_loss,
                                       <<RsiFromAverages(avg_gain, avg_loss)>>))

----------------------------------------------------------------------------
(* Specification of the RSI engine: the inputs are any close series of     *)
(* length 0..MaxLen over 1..MaxClose and any period 1..MaxPeriod.          *)

SeqsUpTo(S, n) == UNION {[1..k -> S] : k \in 0..n}

RsiInit ==
    /\ closes \in SeqsUpTo(1..MaxClose, MaxLen)
    /\ period \in 1..MaxPeriod
    /\ rsi = RsiPending
    /\ rsi_history = HistPending

CallCalculateRsi ==
    /\ rsi.kind = "pending"
    /\ rsi' = calculate_rsi(closes, period)
    /\ UNCHANGED <<closes, period, rsi_history>>
    /\ RsiFrame

CallCalculateRsiHistory ==
    /\ rsi_history.kind = "pending"
    /\ rsi_history' = calculate_rsi_history(closes, period)
    /\ UNCHANGED <<closes, period, rsi>>
    /\ RsiFrame

RsiIdle ==
    /\ closes = << >>
    /\ period = 1
    /\ rsi = RsiPending
    /\ rsi_history = HistPending

----------------------------------------------------------------------------
(* src/src/indicators.py: calculate_opportunity_score *)

MaxDays == 14

Pow10(k) == IF k = 0 THEN 1 ELSE IF k = 1 THEN 10 ELSE IF k = 2 THEN 100
            ELSE IF k = 3 THEN 1000 ELSE 10000

\* the integer nearest to num/den (den > 0), ties to the even neighbour
RoundHalfEven(num, den) ==
    LET q == num \div den
        r == num - q * den
    IN  IF 2 * r < den THEN q
        ELSE IF 2 * r > den THEN q + 1
        ELSE IF q % 2 = 0 THEN q ELSE q + 1

\* Python's round(x, ndigits) on the exact value of x
Round(x, ndigits) ==
    IF IsRaised(x) THEN Raised
    ELSE Rat(RoundHalfEven(x.n * Pow10(ndigits), x.d), Pow10(ndigits))

\* factors.get(key, default) on a dict modelled as a function
Get(dict, key, default) == IF key \in DOMAIN dict THEN dict[key] ELSE default

EmptyDict == [k \in {} |-> FALSE]

FreshnessLateFirstStep(days) ==
    IF days <= 3 THEN Rat(10, 10)
    ELSE IF days <= 6 THEN Rat(8, 10)
    ELSE IF days <= 10 THEN Rat(6, 10)
    ELSE IF days <= 13 THEN Rat(4, 10)
    ELSE Rat(3, 10)

FreshnessFlatTail(days) ==
    IF days <= 2 THEN Rat(10, 10)
    ELSE IF days <= 6 THEN Rat(8, 10)
    ELSE IF days <= 10 THEN Rat(6, 10)
    ELSE Rat(4, 10)

\* if days <= 2: 1.0 elif <= 6: 0.8 elif <= 10: 0.6 elif <= 13: 0.4 else 0.3
Freshness(days) ==
    IF days <= 2 THEN Rat(10, 10)
    ELSE IF days <= 6 THEN Rat(8, 10)
    ELSE IF days <= 10 THEN Rat(6, 10)
    ELSE IF days <= 13 THEN Rat(4, 10)
    ELSE Rat(3, 10)

\* the factor_contributions dict, one entry per bonus that was granted
FactorContributions(f) ==
    LET divergence == Get(f, "divergence_score", 0)
    IN  (IF Get(f, "weekly_extreme", FALSE)
            THEN ("weekly_extreme" :> Rat(2, 10)) ELSE EmptyDict)
     @@ (IF divergence >= 4 THEN ("divergence" :> Rat(5, 10))
         ELSE IF divergence >= 1 THEN ("divergence" :> Rat(3, 10))
         ELSE EmptyDict)
     @@ (IF Get(f, "volatility_compressed", FALSE)
            THEN ("volatility_compressed" :> Rat(2, 10)) ELSE EmptyDict)
     @@ (IF Get(f, "sector_turning", FALSE)
            THEN ("sector_turning" :> Rat(1, 10)) ELSE EmptyDict)
     @@ (IF Get(f, "funding_aligned", FALSE)
            THEN ("funding_aligned" :> Rat(2, 10)) ELSE EmptyDict)
     @@ (IF Get(f, "decorrelation_positive", FALSE)
            THEN ("decorrelation_positive" :> Rat(2, 10)) ELSE EmptyDict)

ContributionOrder ==
    <<"weekly_extreme", "divergence", "volatility_compressed",
      "sector_turning", "funding_aligned", "decorrelation_positive">>

RECURSIVE AccumulateOverwrite(_, _, _)
AccumulateOverwrite(contrib, i, confluence) ==
    IF i > Len(ContributionOrder) THEN confluence
    ELSE AccumulateOverwrite(contrib, i + 1,
                    IF ContributionOrder[i] \in DOMAIN contrib
                    THEN RAdd(Num(1), contrib[ContributionOrder[i]])
                    ELSE confluence)

RECURSIVE Accumulate(_, _, _)
\* confluence = 1.0; confluence += bonus, in the order of the code
Accumulate(contrib, i, confluence) ==
    IF i > Len(ContributionOrder) THEN confluence
    ELSE Accumulate(contrib, i + 1,
                    IF ContributionOrder[i] \in DOMAIN contrib
                    THEN RAdd(confluence, contrib[ContributionOrder[i]])
                    ELSE confluence)

ScorePending ==
    [kind |-> "pending", base_score |-> Num(0), freshness_multiplier |-> Num(0),
     confluence_multiplier |-> Num(0), final_score |-> Num(0), factors |-> EmptyDict]

calculate_opportunity_score(f) ==
    LET zscore == Get(f, "zscore", Num(0))
        base_score == IF zscore # Num(0)
                      THEN [n |-> Abs(zscore.n), d |-> zscore.d] ELSE Num(1)
        days == Get(f, "days_in_zone", 0)
        freshness == Freshness(days)
        factor_contributions == FactorContributions(f)
        confluence == Accumulate(factor_contributions, 1, Num(1))
        final_score == RMul(RMul(base_score, freshness), confluence)
    IN  [kind |-> "value",
         base_score |-> Round(base_score, 4),
         freshness_multiplier |-> freshness,
         confluence_multiplier |-> Round(confluence, 2),
         final_score |-> Round(final_score, 4),
         factors |-> factor_contributions]

----------------------------------------------------------------------------
(* Specification of the opportunity composer: factors dicts in which        *)
(* zscore, days_in_zone and divergence_score are each absent or carry one   *)
(* of the listed values, and the falsy flags are either FALSE or left out.  *)

\* an optional dict entry: << >> leaves the key out
Entry(key, opt) == IF opt = << >> THEN EmptyDict ELSE (key :> opt[1])

Optional(S) == {<< >>} \cup {<<v>> : v \in S}

\* 0, 0.00006, 0.0002, 0.001 and -2.3456
ZScores == {Num(0), Rat(6, 100000), Rat(2, 10000), Rat(1, 1000), Rat(-23456, 10000)}

DivergenceScores == {0, 1, 3, 4, 5}

FlagKeys ==
    <<"weekly_extreme", "volatility_compressed", "sector_turning",
      "funding_aligned", "decorrelation_positive">>

\* a flag is TRUE, or falsy: FALSE in a full dict, left out in a sparse one
Flag(key, b, sparse) ==
    Entry(key, IF b THEN <<TRUE>> ELSE IF sparse THEN << >> ELSE <<FALSE>>)

FactorDicts ==
    { Entry("zscore", z) @@ Entry("days_in_zone", d) @@ Entry("divergence_score", dv)
      @@ Flag(FlagKeys[1], b[1], sparse) @@ Flag(FlagKeys[2], b[2], sparse)
      @@ Flag(FlagKeys[3], b[3], sparse) @@ Flag(FlagKeys[4], b[4], sparse)
      @@ Flag(FlagKeys[5], b[5], sparse) :
        z \in Optional(ZScores), d \in Optional(0..MaxDays),
        dv \in Optional(DivergenceScores),
        b \in [1..5 -> BOOLEAN], sparse \in BOOLEAN }

OppInit ==
    /\ factors \in FactorDicts
    /\ score = ScorePending

OppIdle ==
    /\ factors = EmptyDict
    /\ score = ScorePending

CallCalculateOpportunityScore ==
    /\ score.kind = "pending"
    /\ score' = calculate_opportunity_score(factors)
    /\ UNCHANGED factors
    /\ OppFrame

----------------------------------------------------------------------------
(* src/src/indicators.py: classify_signal_lifecycle *)

MaxHist == 6

\* rsi < threshold for an oversold signal, rsi > threshold for an overbought
is_extreme(x, threshold, oversold) ==
    IF oversold THEN x < threshold ELSE x > threshold

RECURSIVE CountDaysInZone(_, _, _, _)
\* for i in range(len - 1, -1, -1): count while extreme, break otherwise
CountDaysInZone(h, i, threshold, oversold) ==
    IF i = 0 THEN 0
    ELSE IF is_extreme(h[i], threshold, oversold)
         THEN 1 + CountDaysInZone(h, i - 1, threshold, oversold)
         ELSE 0

IsResolvingLoose(h, days, threshold, oversold) ==
    LET n == Len(h)
    IN  /\ days = 0 /\ n >= 2
        /\ \/ is_extreme(h[n - 1], threshold, oversold)
           \/ (n >= 3 /\ is_extreme(h[n - 2], threshold, oversold))
        /\ IF oversold THEN h[n] >= h[n - 1] ELSE h[n] <= h[n - 1]

\* left the zone within the last 2 periods and now moving toward 50
IsResolving(h, days, threshold, oversold) ==
    LET n == Len(h)
    IN  /\ days = 0 /\ n >= 2
        /\ \/ is_extreme(h[n - 1], threshold, oversold)
           \/ (n >= 3 /\ is_extreme(h[n - 2], threshold, oversold))
        /\ IF oversold THEN h[n] > h[n - 1] ELSE h[n] < h[n - 1]

LifecycleStateWideFresh(resolving, days) ==
    IF resolving THEN "resolving"
    ELSE IF days = 0 THEN "none"
    ELSE IF days <= 3 THEN "fresh"
    ELSE IF days <= 5 THEN "confirmed"
    ELSE "extended"

LifecycleState(resolving, days) ==
    IF resolving THEN "resolving"
    ELSE IF days = 0 THEN "none"
    ELSE IF days <= 2 THEN "fresh"
    ELSE IF days <= 5 THEN "confirmed"
    ELSE "extended"

\* the RSI at which the signal started: the oldest value of the extreme
\* suffix, or for a resolving signal the most recent extreme before the end
EntryRsi(h, resolving, days, threshold, oversold) ==
    LET n == Len(h)
    IN  IF resolving
        THEN LET i == CHOOSE i \in 1..(n - 1) :
                          /\ is_extreme(h[i], threshold, oversold)
                          /\ \A j \in (i + 1)..(n - 1) : ~is_extreme(h[j], threshold, oversold)
             IN  h[i]
        ELSE IF days > 0 THEN h[n - days + 1] ELSE h[n]

LifecyclePending ==
    [kind |-> "pending", state |-> "none", days_in_zone |-> 0,
     entry_rsi |-> Num(0), current_rsi |-> Num(0)]

LifecycleNone ==
    [kind |-> "None", state |-> "none", days_in_zone |-> 0,
     entry_rsi |-> Num(0), current_rsi |-> Num(0)]

classify_signal_lifecycle(h, threshold, oversold) ==
    IF Len(h) < 5 THEN LifecycleNone
    ELSE LET days_in_zone == CountDaysInZone(h, Len(h), threshold, oversold)
             is_resolving == IsResolving(h, days_in_zone, threshold, oversold)
         IN  [kind |-> "value",
              state |-> LifecycleState(is_resolving, days_in_zone),
              days_in_zone |-> days_in_zone,
              entry_rsi |-> Round(Num(EntryRsi(h, is_resolving, days_in_zone,
                                               threshold, oversold)), 2),
              current_rsi |-> Round(Num(h[Len(h)]), 2)]

----------------------------------------------------------------------------
(* Specification of the signal lifecycle: RSI histories of length           *)
(* 4..MaxHist around the threshold the callers pass (30 oversold, 70        *)
(* overbought; the overbought levels mirror the oversold ones about 50).    *)

OversoldLevels == {22, 25, 28, 30, 32, 35}

Mirror(S) == {100 - x : x \in S}

LifeInit ==
    /\ is_oversold \in BOOLEAN
    /\ extreme_threshold = (IF is_oversold THEN 30 ELSE 70)
    /\ \E n \in 4..MaxHist :
          lc_rsi_history \in [1..n -> IF is_oversold THEN OversoldLevels
                                                  ELSE Mirror(OversoldLevels)]
    /\ lifecycle = LifecyclePending

LifeIdle ==
    /\ is_oversold = TRUE
    /\ extreme_threshold = 30
    /\ lc_rsi_history = << >>
    /\ lifecycle = LifecyclePending

CallClassifySignalLifecycle ==
    /\ lifecycle.kind = "pending"
    /\ lifecycle' = classify_signal_lifecycle(lc_rsi_history, extreme_threshold, is_oversold)
    /\ UNCHANGED <<lc_rsi_history, extreme_threshold, is_oversold>>
    /\ LifeFrame

----------------------------------------------------------------------------
(* src/src/indicators.py: detect_divergence *)

MaxWindow == 4

MaxPrice == 4

\* xs[-n:] for 1 <= n <= len(xs)
LastN(xs, n) == SubSeq(xs, Len(xs) - n + 1, Len(xs))

Indices(values) == [i \in 1..Len(values) |-> i]

\* indices (1-based) of the local minima, in ascending order
find_local_lows(values) ==
    LET n == Len(values)
        inner == SelectSeq(Indices(values),
                   LAMBDA i : /\ 1 < i /\ i < n
                              /\ values[i] < values[i - 1] /\ values[i] <= values[i + 1])
        first == IF n >= 2 /\ values[1] < values[2] THEN <<1>> ELSE << >>
        last  == IF n >= 2 /\ values[n] < values[n - 1] THEN <<n>> ELSE << >>
    IN  first \o inner \o last

find_local_highs_or(values) ==
    LET n == Len(values)
        inner == SelectSeq(Indices(values),
                   LAMBDA i : /\ 1 < i /\ i < n
                              /\ (values[i] > values[i - 1] \/ values[i] >= values[i + 1]))
        first == IF n >= 2 /\ values[1] > values[2] THEN <<1>> ELSE << >>
        last  == IF n >= 2 /\ values[n] > values[n - 1] THEN <<n>> ELSE << >>
    IN  first \o inner \o last

\* indices (1-based) of the local maxima, in ascending order
find_local_highs(values) ==
    LET n == Len(values)
        inner == SelectSeq(Indices(values),
                   LAMBDA i : /\ 1 < i /\ i < n
                              /\ values[i] > values[i - 1] /\ values[i] >= values[i + 1])
        first == IF n >= 2 /\ values[1] > values[2] THEN <<1>> ELSE << >>
        last  == IF n >= 2 /\ values[n] > values[n - 1] THEN <<n>> ELSE << >>
    IN  first \o inner \o last

StrongGap == 5

DivergenceStrengthStrict(rsi_diff) == IF rsi_diff > StrongGap THEN 2 ELSE 1

\* strength = 2 if rsi_diff >= 5 else 1
DivergenceStrength(rsi_diff) == IF rsi_diff >= StrongGap THEN 2 ELSE 1

DivergencePending == [kind |-> "pending", type |-> "none", strength |-> 0]

DivergenceNone == [kind |-> "None", type |-> "none", strength |-> 0]

Diverges(type, strength) == [kind |-> "value", type |-> type, strength |-> strength]

\* price lower low with RSI higher low, between the first and the last low
BullishAt(prices, rsis, lows) ==
    /\ Len(lows) >= 2
    /\ prices[lows[Len(lows)]] < prices[lows[1]]
    /\ rsis[lows[Len(lows)]] > rsis[lows[1]]

\* price higher high with RSI lower high, between the first and the last high
BearishAt(prices, rsis, highs) ==
    /\ Len(highs) >= 2
    /\ prices[highs[Len(highs)]] > prices[highs[1]]
    /\ rsis[highs[Len(highs)]] < rsis[highs[1]]

detect_divergence_bearish_first(ph, rh, lb) ==
    IF Len(ph) < lb \/ Len(rh) < lb THEN DivergenceNone
    ELSE IF Len(ph) # Len(rh) THEN DivergenceNone
    ELSE LET prices == LastN(ph, lb)
             rsis   == LastN(rh, lb)
             price_lows  == find_local_lows(prices)
             price_highs == find_local_highs(prices)
         IN  IF BearishAt(prices, rsis, price_highs)
             THEN Diverges("bearish", DivergenceStrength(
                      rsis[price_highs[1]] - rsis[price_highs[Len(price_highs)]]))
             ELSE IF BullishAt(prices, rsis, price_lows)
             THEN Diverges("bullish", DivergenceStrength(
                      rsis[price_lows[Len(price_lows)]] - rsis[price_lows[1]]))
             ELSE Diverges("none", 0)

detect_divergence(ph, rh, lb) ==
    IF Len(ph) < lb \/ Len(rh) < lb THEN DivergenceNone
    ELSE IF Len(ph) # Len(rh) THEN DivergenceNone
    ELSE LET prices == LastN(ph, lb)
             rsis   == LastN(rh, lb)
             price_lows  == find_local_lows(prices)
             price_highs == find_local_highs(prices)
         IN  IF BullishAt(prices, rsis, price_lows)
             THEN Diverges("bullish", DivergenceStrength(
                      rsis[price_lows[Len(price_lows)]] - rsis[price_lows[1]]))
             ELSE IF BearishAt(prices, rsis, price_highs)
             THEN Diverges("bearish", DivergenceStrength(
                      rsis[price_highs[1]] - rsis[price_highs[Len(price_highs)]]))
             ELSE Diverges("none", 0)

----------------------------------------------------------------------------
(* Specification of the divergence detector: equal-length price and RSI     *)
(* series of MaxWindow values and a lookback of MaxWindow - 1,              *)
(* MaxWindow or MaxWindow + 1, so that the window is a proper suffix of     *)
(* the series, the whole series, or longer than the series.                 *)

RsiLevels == {40, 43, 45}

DivInit ==
    /\ price_history \in [1..MaxWindow -> 1..MaxPrice]
    /\ dv_rsi_history \in [1..MaxWindow -> RsiLevels]
    /\ lookback \in {MaxWindow - 1, MaxWindow, MaxWindow + 1}
    /\ dv_divergence = DivergencePending

DivIdle ==
    /\ price_history = << >>
    /\ dv_rsi_history = << >>
    /\ lookback = 1
    /\ dv_divergence = DivergencePending

CallDetectDivergence ==
    /\ dv_divergence.kind = "pending"
    /\ dv_divergence' = detect_divergence(price_history, dv_rsi_history, lookback)
    /\ UNCHANGED <<price_history, dv_rsi_history, lookback>>
    /\ DivFrame

----------------------------------------------------------------------------
(* src/src/indicators.py: calculate_divergence_score *)

\* Python's None passed as an argument; a dict is a function on its keys
PyNone == [kind |-> "None"]

DscPending == [kind |-> "pending", val |-> 0]

HasDivergenceAnyType(divergence) == divergence # PyNone

\* divergence is not None and divergence.get("type") != "none"
HasDivergence(divergence) ==
    divergence # PyNone /\ Get(divergence, "type", "None") # "none"

calculate_divergence_score(daily, weekly) ==
    LET daily_has  == HasDivergence(daily)
        weekly_has == HasDivergence(weekly)
    IN  [kind |-> "value",
         val  |-> IF daily_has /\ weekly_has THEN 4
                  ELSE IF daily_has THEN Get(daily, "strength", 1)
                  ELSE IF weekly_has THEN Get(weekly, "strength", 1)
                  ELSE 0]

\* the dicts detect_divergence returns, and a divergence dict without the
\* "strength" key, for which the code has the default 1
DivergenceDicts ==
    {("type" :> "none") @@ ("strength" :> 0)}
    \cup {("type" :> t) @@ Entry("strength", s) :
            t \in {"bullish", "bearish"}, s \in Optional({1, 2})}

DscInit ==
    /\ daily_divergence \in {PyNone} \cup DivergenceDicts
    /\ weekly_divergence \in {PyNone} \cup DivergenceDicts
    /\ divergence_score = DscPending

DscIdle ==
    /\ daily_divergence = PyNone
    /\ weekly_divergence = PyNone
    /\ divergence_score = DscPending

CallCalculateDivergenceScore ==
    /\ divergence_score.kind = "pending"
    /\ divergence_score' = calculate_divergence_score(daily_divergence, weekly_divergence)
    /\ UNCHANGED <<daily_divergence, weekly_divergence>>
    /\ DscFrame

----------------------------------------------------------------------------
(* src/src/sectors.py: calculate_sector_rsi, calculate_sector_momentum *)

MaxHistory == 8

BottomWindow == 30

\* three entries of the lookup table: two coins of one sector, one of another
SECTOR_MAPPINGS == ("bitcoin" :> "L1") @@ ("ethereum" :> "L1") @@ ("uniswap" :> "DeFi")

get_sector(coin_id) == Get(SECTOR_MAPPINGS, coin_id, "Other")

RECURSIVE RSumRange(_, _, _)
\* xs[lo] + ... + xs[hi], summed by halves: exact addition is associative
RSumRange(xs, lo, hi) ==
    IF lo > hi THEN Num(0)
    ELSE IF lo = hi THEN xs[lo]
    ELSE RAdd(RSumRange(xs, lo, (lo + hi) \div 2),
              RSumRange(xs, (lo + hi) \div 2 + 1, hi))

\* sum(...) of the first k rationals of xs
RSumSeq(xs, k) == RSumRange(xs, 1, k)

\* Python's xs[-k]
FromEnd(xs, k) == xs[Len(xs) - k + 1]

\* the coins of a sector, in input order; coins without daily_rsi are skipped
SectorCoins(coins_, sector) ==
    SelectSeq(coins_, LAMBDA c : /\ "daily_rsi" \in DOMAIN c
                                 /\ get_sector(Get(c, "id", "")) = sector)

SectorsOf(coins_) ==
    {get_sector(Get(coins_[i], "id", "")) :
        i \in {j \in 1..Len(coins_) : "daily_rsi" \in DOMAIN coins_[j]}}

\* all(c.get("market_cap") for c in cs): a missing or zero cap is falsy
has_market_cap(cs) == \A i \in 1..Len(cs) : Get(cs[i], "market_cap", 0) # 0

TotalCap(cs) == SumSeq([i \in 1..Len(cs) |-> cs[i]["market_cap"]], 1, Len(cs))

SimpleMean(vals) == RDiv(Num(SumSeq(vals, 1, Len(vals))), Num(Len(vals)))

SectorMeanCapOfSome(cs, vals) ==
    LET caps  == [i \in 1..Len(cs) |-> Get(cs[i], "market_cap", 0)]
        total == SumSeq(caps, 1, Len(cs))
    IN  IF total > 0
        THEN RSumSeq([i \in 1..Len(cs) |-> Rat(vals[i] * caps[i], total)], Len(cs))
        ELSE SimpleMean(vals)

\* the mean of vals (one value per coin of cs): weighted by market cap when
\* every coin has one and the total is positive, the simple mean otherwise
SectorMean(cs, vals) ==
    IF has_market_cap(cs) /\ Len(cs) > 0
    THEN IF TotalCap(cs) > 0
         THEN RSumSeq([i \in 1..Len(cs) |->
                          Rat(vals[i] * cs[i]["market_cap"], TotalCap(cs))], Len(cs))
         ELSE SimpleMean(vals)
    ELSE SimpleMean(vals)

DailyRsis(cs) == [i \in 1..Len(cs) |-> cs[i]["daily_rsi"]]

CoinIds(cs) == [i \in 1..Len(cs) |-> Get(cs[i], "id", "")]

SectorPending == [kind |-> "pending", sectors |-> EmptyDict]

SectorResult(sectors, raised) ==
    [kind |-> IF raised THEN "raise" ELSE "value", sectors |-> sectors]

calculate_sector_rsi(coins_) ==
    LET result == [s \in SectorsOf(coins_) |->
                     LET cs == SectorCoins(coins_, s)
                     IN  [rsi   |-> Round(SectorMean(cs, DailyRsis(cs)), 2),
                          coins |-> CoinIds(cs),
                          count |-> Len(cs)]]
    IN  SectorResult(result, \E s \in DOMAIN result : IsRaised(result[s].rsi))

\* the members with at least k RSI-history values
WithHistory(cs, k) ==
    SelectSeq(cs, LAMBDA c : Len(Get(c, "rsi_history", << >>)) >= k)

HistoryValues(cs, k) == [i \in 1..Len(cs) |-> FromEnd(cs[i]["rsi_history"], k)]

Momentum(change_7d) ==
    IF change_7d = << >> THEN "flat"
    ELSE IF RLess(Num(3), change_7d[1]) THEN "rising"
    ELSE IF RLess(change_7d[1], Num(-3)) THEN "falling"
    ELSE "flat"

is_rotation_signal_when_rising(current_rsi, change_7d) ==
    /\ RLess(current_rsi, Num(35))
    /\ change_7d # << >>
    /\ RLess(Num(3), change_7d[1])

is_rotation_signal(current_rsi, change_7d) ==
    /\ RLess(current_rsi, Num(35))
    /\ change_7d # << >>
    /\ RLess(Num(0), change_7d[1])

\* daily_weighted_rsi.index(min(daily_weighted_rsi)), 0-based
IndexOfMin(xs) ==
    (CHOOSE i \in 1..Len(xs) :
        /\ \A j \in 1..Len(xs) : ~RLess(xs[j], xs[i])
        /\ \A j \in 1..(i - 1) : RLess(xs[i], xs[j])) - 1

DaysSinceBottom(cs) ==
    LET c30 == WithHistory(cs, BottomWindow)
        daily_weighted_rsi ==
            [d \in 1..BottomWindow |->
                SectorMean(c30, HistoryValues(c30, BottomWindow - (d - 1)))]
    IN  IF Len(c30) = 0 THEN << >>
        ELSE <<(BottomWindow - 1) - IndexOfMin(daily_weighted_rsi)>>

RoundOpt(x, ndigits) == IF x = << >> THEN << >> ELSE <<Round(x[1], ndigits)>>

SectorMomentum(cs) ==
    LET current_rsi == SectorMean(cs, DailyRsis(cs))
        coins_with_history == WithHistory(cs, 7)
        rsi_7d_ago ==
            IF Len(coins_with_history) = 0 THEN << >>
            ELSE <<SectorMean(coins_with_history,
                              HistoryValues(coins_with_history, 7))>>
        change_7d ==
            IF rsi_7d_ago = << >> THEN << >>
            ELSE <<RSub(current_rsi, rsi_7d_ago[1])>>
    IN  [current_rsi        |-> Round(current_rsi, 2),
         rsi_7d_ago         |-> RoundOpt(rsi_7d_ago, 2),
         momentum           |-> Momentum(change_7d),
         change_7d          |-> RoundOpt(change_7d, 2),
         is_rotation_signal |-> is_rotation_signal(current_rsi, change_7d),
         days_since_bottom  |-> DaysSinceBottom(cs),
         coins              |-> CoinIds(cs),
         count              |-> Len(cs)]

calculate_sector_momentum(coins_) ==
    LET result == [s \in SectorsOf(coins_) |-> SectorMomentum(SectorCoins(coins_, s))]
    IN  SectorResult(result,
            \E s \in DOMAIN result :
                \/ IsRaised(result[s].current_rsi)
                \/ result[s].rsi_7d_ago # << >> /\ IsRaised(result[s].rsi_7d_ago[1]))

\* history of n values ending at last, step apart (oldest to newest)
Ramp(n, last, step) == [i \in 1..n |-> last - step * (n - i)]

HistoryLengths == {0} \cup (6..MaxHistory) \cup {BottomWindow}

\* the dicts app.py builds per coin: the history ends at the current RSI;
\* a coin whose daily RSI is missing carries nothing the functions read
CoinDicts(coin_id) ==
    {("id" :> coin_id)}
    \cup {("id" :> coin_id) @@ ("daily_rsi" :> r) @@ Entry("market_cap", cap)
          @@ ("rsi_history" :> Ramp(n, r, step)) :
            r \in {34, 40}, cap \in Optional({0, 1000, 3000}),
            n \in HistoryLengths, step \in {-1, 0, 1}}

Watchlists == {<<"bitcoin", "ethereum">>, <<"bitcoin", "uniswap">>}

SecInit ==
    /\ \E w \in Watchlists :
          coins \in {<<c1, c2>> : c1 \in CoinDicts(w[1]), c2 \in CoinDicts(w[2])}
    /\ sector_rsi = SectorPending
    /\ sector_momentum = SectorPending

SecIdle ==
    /\ coins = << >>
    /\ sector_rsi = SectorPending
    /\ sector_momentum = SectorPending

CallCalculateSectorRsi ==
    /\ sector_rsi.kind = "pending"
    /\ sector_rsi' = calculate_sector_rsi(coins)
    /\ UNCHANGED <<coins, sector_momentum>>
    /\ SecFrame

CallCalculateSectorMomentum ==
    /\ sector_momentum.kind = "pending"
    /\ sector_momentum' = calculate_sector_momentum(coins)
    /\ UNCHANGED <<coins, sector_rsi>>
    /\ SecFrame

----------------------------------------------------------------------------
(* src/src/indicators.py: detect_regime *)

MaxWeeks == 5

RegimePending == [kind |-> "pending", state |-> "", momentum |-> "", combined |-> ""]

RegimeNone == [kind |-> "None", state |-> "", momentum |-> "", combined |-> ""]

Crossed50LastThree(recent_4) ==
    \E i \in 3..Len(recent_4) :
        \/ recent_4[i - 1] <= 50 /\ 50 < recent_4[i]
        \/ recent_4[i - 1] > 50 /\ 50 >= recent_4[i]

\* for i in range(1, len(recent_4)): a pair that straddles 50 sets crossed_50
Crossed50(recent_4) ==
    \E i \in 2..Len(recent_4) :
        \/ recent_4[i - 1] <= 50 /\ 50 < recent_4[i]
        \/ recent_4[i - 1] > 50 /\ 50 >= recent_4[i]

detect_regime_from_5(history) ==
    IF Len(history) < 5 THEN RegimeNone
    ELSE LET current  == FromEnd(history, 1)
             prev_3   == FromEnd(history, 4)
             state    == IF Crossed50(LastN(history, 4)) THEN "transition"
                         ELSE IF current > 50 THEN "bull" ELSE "bear"
             diff     == current - prev_3
             momentum == IF diff > 3 THEN "rising"
                         ELSE IF diff < -3 THEN "falling" ELSE "neutral"
         IN  [kind     |-> "value",
              state    |-> state,
              momentum |-> momentum,
              combined |-> IF state = "transition" THEN "transition"
                           ELSE state \o "_" \o momentum]

detect_regime(history) ==
    IF Len(history) < 4 THEN RegimeNone
    ELSE LET current  == FromEnd(history, 1)
             prev_3   == FromEnd(history, 4)
             state    == IF Crossed50(LastN(history, 4)) THEN "transition"
                         ELSE IF current > 50 THEN "bull" ELSE "bear"
             diff     == current - prev_3
             momentum == IF diff > 3 THEN "rising"
                         ELSE IF diff < -3 THEN "falling" ELSE "neutral"
         IN  [kind     |-> "value",
              state    |-> state,
              momentum |-> momentum,
              combined |-> IF state = "transition" THEN "transition"
                           ELSE state \o "_" \o momentum]

WeeklyRsiLevels == {46, 47, 50, 51, 54}

RegInit ==
    /\ btc_weekly_rsi_history \in UNION {[1..k -> WeeklyRsiLevels] : k \in 3..MaxWeeks}
    /\ regime = RegimePending

RegIdle ==
    /\ btc_weekly_rsi_history = << >>
    /\ regime = RegimePending

CallDetectRegime ==
    /\ regime.kind = "pending"
    /\ regime' = detect_regime(btc_weekly_rsi_history)
    /\ UNCHANGED btc_weekly_rsi_history
    /\ RegFrame

----------------------------------------------------------------------------
(* src/src/indicators.py: detect_volatility_regime *)

VolMaxPeriod == 2

VolPending ==
    [kind |-> "pending", current_atr |-> Num(0), avg_atr |-> Num(0),
     ratio |-> Num(0), regime |-> "", volatility_history |-> << >>]

VolNone ==
    [kind |-> "None", current_atr |-> Num(0), avg_atr |-> Num(0),
     ratio |-> Num(0), regime |-> "", volatility_history |-> << >>]

\* tr = abs(price_history[i] - price_history[i - 1]) for i in range(1, len)
TrueRanges(prices) == [i \in 1..(Len(prices) - 1) |-> Abs(prices[i + 1] - prices[i])]

\* the nested calculate_atr: the mean true range as a percentage of price
calculate_atr(tr_slice, price) ==
    LET atr == RDiv(Num(SumSeq(tr_slice, 1, Len(tr_slice))), Num(Len(tr_slice)))
    IN  IF price > 0 THEN RMul(RDiv(atr, Num(price)), Num(100)) ELSE Num(0)

\* the loop over range(lookback): position i contributes when its slice
\* true_ranges[start_idx:end_idx] starts at or after index 0
AtrValues(prices, p) ==
    LET true_ranges == TrueRanges(prices)
        lookback_   == 4 * p
        EndIdx(i)   == Len(true_ranges) - (lookback_ - 1 - i)
        kept        == SelectSeq([k \in 1..lookback_ |-> k - 1],
                           LAMBDA i : /\ EndIdx(i) - p >= 0
                                      /\ Len(SubSeq(true_ranges, EndIdx(i) - p + 1, EndIdx(i))) = p)
    IN  [k \in 1..Len(kept) |->
            calculate_atr(SubSeq(true_ranges, EndIdx(kept[k]) - p + 1, EndIdx(kept[k])),
                          prices[EndIdx(kept[k]) + 1])]

VolatilityRegime(ratio) ==
    IF RLess(ratio, Rat(7, 10)) THEN "compressed"
    ELSE IF RLess(Rat(13, 10), ratio) THEN "expanded"
    ELSE "normal"

detect_volatility_regime(prices, p) ==
    IF Len(prices) < 4 * p + 1 THEN VolNone
    ELSE LET true_ranges == TrueRanges(prices)
             current_atr == calculate_atr(LastN(true_ranges, p), FromEnd(prices, 1))
             atr_values  == AtrValues(prices, p)
             avg_atr     == RDiv(RSumSeq(atr_values, Len(atr_values)), Num(Len(atr_values)))
             ratio       == IF RLess(Num(0), avg_atr) THEN RDiv(current_atr, avg_atr)
                            ELSE Num(1)
             recent      == LastN(atr_values, Min(14, Len(atr_values)))
         IN  IF Len(atr_values) = 0 THEN VolNone
             ELSE [kind        |-> "value",
                   current_atr |-> Round(current_atr, 4),
                   avg_atr     |-> Round(avg_atr, 4),
                   ratio       |-> Round(ratio, 4),
                   regime      |-> VolatilityRegime(ratio),
                   volatility_history |->
                       [k \in 1..Len(recent) |->
                           IF RLess(Num(0), avg_atr)
                           THEN Round(RDiv(recent[k], avg_atr), 4) ELSE Num(1)]]

VolInit ==
    /\ vol_period \in 1..VolMaxPeriod
    /\ vol_price_history \in
          UNION {[1..k -> {1, 2}] : k \in (4 * vol_period)..(5 * vol_period)}
    /\ volatility = VolPending

VolIdle ==
    /\ vol_period = 1
    /\ vol_price_history = << >>
    /\ volatility = VolPending

CallDetectVolatilityRegime ==
    /\ volatility.kind = "pending"
    /\ volatility' = detect_volatility_regime(vol_price_history, vol_period)
    /\ UNCHANGED <<vol_price_history, vol_period>>
    /\ VolFrame

----------------------------------------------------------------------------
(* src/src/indicators.py: calculate_zscore                                 *)
(*                                                                         *)
(* std and zscore are square roots, irrational in general: the record      *)
(* keeps std as its square (variance) and zscore as its sign and its       *)
(* square, and their rounding to 4 decimals is left out.                   *)
(*                                                                         *)
(* The float mean sum(data) / len(data) is the exact mean or a float next  *)
(* to it: err is that rounding error in units in the last place, a         *)
(* quantity far below every difference between distinct inputs.  For       *)
(* [0.1] * 10 Python computes the mean 0.09999999999999999 (err = -1).     *)
(***************************************************************************)

MaxValues == 11

MeanRoundingErrors == {-1, 0, 1}

ZscorePending ==
    [kind |-> "pending", current |-> 0, mean |-> Num(0), variance |-> Num(0),
     zscore_sign |-> 0, zscore_sq |-> Num(0), extreme |-> ""]

ZscoreNone ==
    [kind |-> "None", current |-> 0, mean |-> Num(0), variance |-> Num(0),
     zscore_sign |-> 0, zscore_sq |-> Num(0), extreme |-> ""]

\* data = values[-lookback:] if len(values) >= lookback else values
ZscoreWindow(values, lb) == IF Len(values) >= lb THEN LastN(values, lb) ELSE values

\* sum((x - mean) ** 2 for x in data) / len(data)
PopulationVariance(data, mean) ==
    RDiv(RSumSeq([i \in 1..Len(data) |->
                     RMul(RSub(Num(data[i]), mean), RSub(Num(data[i]), mean))],
                 Len(data)),
         Num(Len(data)))

\* std == 0: every x - mean is exactly 0, which needs a mean without
\* rounding error; with one, each deviation is at least err in size
StdIsZero(variance, err) == RIsZero(variance) /\ err = 0

Sign(k) == IF k < 0 THEN -1 ELSE IF k > 0 THEN 1 ELSE 0

\* (current - mean) / std as its sign and square; in a constant window with
\* a rounded mean, current - mean = -err and std = |err|
ZscoreOf(current, mean, variance, err) ==
    IF StdIsZero(variance, err) THEN [sign |-> 0, sq |-> Num(0)]
    ELSE IF RIsZero(variance) THEN [sign |-> -Sign(err), sq |-> Num(1)]
    ELSE LET deviation == RSub(Num(current), mean)
         IN  [sign |-> Sign(deviation.n),
              sq   |-> RDiv(RMul(deviation, deviation), variance)]

\* zscore < -2.0, zscore > 2.0
Extreme(zscore) ==
    IF zscore.sign < 0 /\ RLess(Num(4), zscore.sq) THEN "oversold"
    ELSE IF zscore.sign > 0 /\ RLess(Num(4), zscore.sq) THEN "overbought"
    ELSE "normal"

calculate_zscore(values, lb, err) ==
    IF Len(values) < 10 THEN ZscoreNone
    ELSE LET data     == ZscoreWindow(values, lb)
             current  == FromEnd(values, 1)
             mean     == RDiv(Num(SumSeq(data, 1, Len(data))), Num(Len(data)))
             variance == PopulationVariance(data, mean)
             zscore   == ZscoreOf(current, mean, variance, err)
         IN  [kind        |-> "value",
              current     |-> current,
              mean        |-> Round(mean, 4),
              variance    |-> variance,
              zscore_sign |-> zscore.sign,
              zscore_sq   |-> zscore.sq,
              extreme     |-> Extreme(zscore)]

\* the two levels stand for floats such as 25.51 or 0.1, whose sums are rounded
ZsInit ==
    /\ zs_values \in UNION {[1..k -> {40, 50}] : k \in 9..MaxValues}
    /\ zs_lookback \in {10, 90}
    /\ zscore_info = ZscorePending

ZsIdle ==
    /\ zs_values = << >>
    /\ zs_lookback = 90
    /\ zscore_info = ZscorePending

CallCalculateZscore ==
    /\ zscore_info.kind = "pending"
    /\ \E err \in MeanRoundingErrors :
          zscore_info' = calculate_zscore(zs_values, zs_lookback, err)
    /\ UNCHANGED <<zs_values, zs_lookback>>
    /\ ZsFrame

----------------------------------------------------------------------------
(* src/src/indicators.py: calculate_beta_adjusted_rsi *)

MaxReturns == 31

BetaPending ==
    [kind |-> "pending", beta |-> Num(0), expected_rsi |-> Num(0),
     residual |-> Num(0), interpretation |-> ""]

BetaNone ==
    [kind |-> "None", beta |-> Num(0), expected_rsi |-> Num(0),
     residual |-> Num(0), interpretation |-> ""]

\* sum((coin[i] - mean_coin) * (btc[i] - mean_btc) for i in range(n)) / n
Covariance(cr, br, mean_coin, mean_btc) ==
    RDiv(RSumSeq([i \in 1..Len(cr) |->
                     RMul(RSub(Num(cr[i]), mean_coin), RSub(Num(br[i]), mean_btc))],
                 Len(cr)),
         Num(Len(cr)))

InterpretationInclusive(residual) ==
    IF ~RLess(residual, Num(5)) THEN "outperforming"
    ELSE IF ~RLess(Num(-5), residual) THEN "underperforming"
    ELSE "expected"

Interpretation(residual) ==
    IF RLess(Num(5), residual) THEN "outperforming"
    ELSE IF RLess(residual, Num(-5)) THEN "underperforming"
    ELSE "expected"

calculate_beta_adjusted_rsi(cr, br, c_rsi, b_rsi) ==
    IF Len(cr) < 30 \/ Len(br) < 30 THEN BetaNone
    ELSE IF Len(cr) # Len(br) THEN BetaNone
    ELSE LET n            == Len(cr)
             mean_coin    == RDiv(Num(SumSeq(cr, 1, n)), Num(n))
             mean_btc     == RDiv(Num(SumSeq(br, 1, n)), Num(n))
             covariance   == Covariance(cr, br, mean_coin, mean_btc)
             variance_btc == PopulationVariance(br, mean_btc)
             beta         == IF RIsZero(variance_btc) THEN Num(1)
                             ELSE RDiv(covariance, variance_btc)
             expected_rsi == RAdd(Num(50), RMul(beta, Num(b_rsi - 50)))
             residual     == RSub(Num(c_rsi), expected_rsi)
         IN  [kind           |-> "value",
              beta           |-> Round(beta, 4),
              expected_rsi   |-> Round(expected_rsi, 4),
              residual       |-> Round(residual, 4),
              interpretation |-> Interpretation(residual)]

\* daily % returns that change level once: j values of u, then v
StepSeries(n, j, u, v) == [i \in 1..n |-> IF i <= j THEN u ELSE v]

ReturnSeries ==
    {StepSeries(n, j, u, v) :
        n \in 29..MaxReturns, j \in {10, 15, 20}, u \in {-1, 0, 1}, v \in {-1, 0, 1}}

BetaInit ==
    /\ coin_returns \in ReturnSeries
    /\ btc_returns \in ReturnSeries
    /\ coin_rsi \in {44, 45, 50, 55, 56}
    /\ btc_rsi \in {50, 60}
    /\ beta_info = BetaPending

BetaIdle ==
    /\ coin_returns = << >>
    /\ btc_returns = << >>
    /\ coin_rsi = 50
    /\ btc_rsi = 50
    /\ beta_info = BetaPending

CallCalculateBetaAdjustedRsi ==
    /\ beta_info.kind = "pending"
    /\ beta_info' = calculate_beta_adjusted_rsi(coin_returns, btc_returns, coin_rsi, btc_rsi)
    /\ UNCHANGED <<coin_returns, btc_returns, coin_rsi, btc_rsi>>
    /\ BetaFrame

----------------------------------------------------------------------------
(* src/src/rsi.py: aggregate_to_4h_closes, aggregate_to_12h_closes,        *)
(* aggregate_to_3d_closes                                                  *)

MaxPoints == 3

\* one hour in milliseconds
HourMs == 60 * 60 * 1000

ClosesPending == [kind |-> "pending", vals |-> << >>]

RECURSIVE SortedKeys(_)
\* sorted(buckets.keys())
SortedKeys(keys) ==
    IF keys = {} THEN << >>
    ELSE LET least == CHOOSE k \in keys : \A other \in keys : k <= other
         IN  <<least>> \o SortedKeys(keys \ {least})

\* bucket_key = timestamp_ms // bucket_size_ms
BucketKey(point, bucket_size_ms) == point[1] \div bucket_size_ms

BucketKeys(points, bucket_size_ms) ==
    {BucketKey(points[i], bucket_size_ms) : i \in 1..Len(points)}

AggregateClosesFirstWins(points, bucket_size_ms) ==
    LET sorted_buckets == SortedKeys(BucketKeys(points, bucket_size_ms))
        First(key) == CHOOSE i \in 1..Len(points) :
                         /\ BucketKey(points[i], bucket_size_ms) = key
                         /\ \A j \in 1..(i - 1) : BucketKey(points[j], bucket_size_ms) # key
    IN  [kind |-> "value",
         vals |-> [k \in 1..Len(sorted_buckets) |-> points[First(sorted_buckets[k])][2]]]

\* buckets[bucket_key] = price for each point in list order, a later point
\* overwriting an earlier one of the same bucket; then the values by sorted key
AggregateCloses(points, bucket_size_ms) ==
    LET sorted_buckets == SortedKeys(BucketKeys(points, bucket_size_ms))
        Last(key) == CHOOSE i \in 1..Len(points) :
                        /\ BucketKey(points[i], bucket_size_ms) = key
                        /\ \A j \in (i + 1)..Len(points) :
                              BucketKey(points[j], bucket_size_ms) # key
    IN  [kind |-> "value",
         vals |-> [k \in 1..Len(sorted_buckets) |-> points[Last(sorted_buckets[k])][2]]]

aggregate_to_4h_closes(hourly_prices) == AggregateCloses(hourly_prices, 4 * HourMs)

aggregate_to_12h_closes(hourly_prices) == AggregateCloses(hourly_prices, 12 * HourMs)

aggregate_to_3d_closes(daily_prices) == AggregateCloses(daily_prices, 3 * 24 * HourMs)

\* timestamps at hours 0, 3, 4, 13, 72 and 73
Timestamps == {h * HourMs : h \in {0, 3, 4, 13, 72, 73}}

AggInit ==
    /\ price_points \in SeqsUpTo(Timestamps \X {1, 2}, MaxPoints)
    /\ closes_4h = ClosesPending
    /\ closes_12h = ClosesPending
    /\ closes_3d = ClosesPending

AggIdle ==
    /\ price_points = << >>
    /\ closes_4h = ClosesPending
    /\ closes_12h = ClosesPending
    /\ closes_3d = ClosesPending

CallAggregateTo4hCloses ==
    /\ closes_4h.kind = "pending"
    /\ closes_4h' = aggregate_to_4h_closes(price_points)
    /\ UNCHANGED <<price_points, closes_12h, closes_3d>>
    /\ AggFrame

CallAggregateTo12hCloses ==
    /\ closes_12h.kind = "pending"
    /\ closes_12h' = aggregate_to_12h_closes(price_points)
    /\ UNCHANGED <<price_points, closes_4h, closes_3d>>
    /\ AggFrame

CallAggregateTo3dCloses ==
    /\ closes_3d.kind = "pending"
    /\ closes_3d' = aggregate_to_3d_closes(price_points)
    /\ UNCHANGED <<price_points, closes_4h, closes_12h>>
    /\ AggFrame

----------------------------------------------------------------------------
(* src/src/indicators.py: calculate_rsi_acceleration,                      *)
(* calculate_price_acceleration, calculate_obv_acceleration                *)

MaxSeries == 4

AccPending == [kind |-> "pending"]

AccNone == [kind |-> "None"]

RsiAccelerationLabel(velocity, acceleration) ==
    IF Abs(velocity) < 1 /\ Abs(acceleration) < 1 THEN "stable"
    ELSE IF velocity > 0 /\ acceleration > 0 THEN "accelerating_up"
    ELSE IF velocity > 0 /\ acceleration < 0 THEN "decelerating_up"
    ELSE IF velocity < 0 /\ acceleration < 0 THEN "accelerating_down"
    ELSE IF velocity < 0 /\ acceleration > 0 THEN "decelerating_down"
    ELSE "stable"

calculate_rsi_acceleration(history) ==
    IF Len(history) < 3 THEN AccNone
    ELSE LET velocity      == FromEnd(history, 1) - FromEnd(history, 2)
             prev_velocity == FromEnd(history, 2) - FromEnd(history, 3)
             acceleration  == velocity - prev_velocity
         IN  [kind           |-> "value",
              velocity       |-> velocity,
              acceleration   |-> acceleration,
              interpretation |-> RsiAccelerationLabel(velocity, acceleration)]

PlainChange(later, earlier) == Num(later - earlier)

\* (later - earlier) / earlier * 100
PercentChange(later, earlier) ==
    RMul(RDiv(Num(later - earlier), Num(earlier)), Num(100))

calculate_price_acceleration(prices) ==
    IF Len(prices) < 3 THEN AccNone
    ELSE IF FromEnd(prices, 2) = 0 THEN AccNone
    ELSE IF FromEnd(prices, 3) = 0 THEN AccNone
    ELSE LET velocity      == PercentChange(FromEnd(prices, 1), FromEnd(prices, 2))
             prev_velocity == PercentChange(FromEnd(prices, 2), FromEnd(prices, 3))
             acceleration  == RSub(velocity, prev_velocity)
             pct_change_3d == PercentChange(FromEnd(prices, 1), FromEnd(prices, 3))
         IN  [kind          |-> "value",
              velocity      |-> Round(velocity, 4),
              acceleration  |-> Round(acceleration, 4),
              pct_change_3d |-> Round(pct_change_3d, 4)]

RAbs(x) == [n |-> Abs(x.n), d |-> x.d]

ObvLabel(normalized_velocity, normalized_acceleration) ==
    IF RLess(RAbs(normalized_velocity), Num(2)) /\ RLess(RAbs(normalized_acceleration), Num(2))
    THEN "stable"
    ELSE IF RLess(Num(2), normalized_acceleration) THEN "accumulating"
    ELSE IF RLess(normalized_acceleration, Num(-2)) THEN "distributing"
    ELSE "stable"

\* max(recent_obv) - min(recent_obv) over the last min(10, len) values
ObvRange(obv_history) ==
    LET recent_obv == LastN(obv_history, Min(10, Len(obv_history)))
        values_    == {recent_obv[i] : i \in 1..Len(recent_obv)}
    IN  (CHOOSE hi \in values_ : \A v \in values_ : v <= hi)
            - (CHOOSE lo \in values_ : \A v \in values_ : lo <= v)

calculate_obv_acceleration(obv_history) ==
    IF Len(obv_history) < 3 THEN AccNone
    ELSE LET velocity      == FromEnd(obv_history, 1) - FromEnd(obv_history, 2)
             prev_velocity == FromEnd(obv_history, 2) - FromEnd(obv_history, 3)
             acceleration  == velocity - prev_velocity
             obv_range     == ObvRange(obv_history)
             normalized_velocity ==
                 IF obv_range > 0
                 THEN RMul(RDiv(Num(velocity), Num(obv_range)), Num(100)) ELSE Num(0)
             normalized_acceleration ==
                 IF obv_range > 0
                 THEN RMul(RDiv(Num(acceleration), Num(obv_range)), Num(100)) ELSE Num(0)
         IN  [kind             |-> "value",
              velocity         |-> Round(normalized_velocity, 4),
              acceleration     |-> Round(normalized_acceleration, 4),
              raw_velocity     |-> velocity,
              raw_acceleration |-> acceleration,
              interpretation   |-> ObvLabel(normalized_velocity, normalized_acceleration)]

\* short series, and series of 10 and 11 values that start with an outlier
SeriesValues == {0, 1, 2, 4}

AccSeries ==
    (UNION {[1..k -> SeriesValues] : k \in 2..MaxSeries})
    \cup {<<9>> \o [i \in 1..body |-> 1] \o tail :
            body \in {6, 7}, tail \in [1..3 -> SeriesValues]}

AccInit ==
    /\ acc_series \in AccSeries
    /\ rsi_acceleration = AccPending
    /\ price_acceleration = AccPending
    /\ obv_acceleration = AccPending

AccIdle ==
    /\ acc_series = << >>
    /\ rsi_acceleration = AccPending
    /\ price_acceleration = AccPending
    /\ obv_acceleration = AccPending

CallCalculateRsiAcceleration ==
    /\ rsi_acceleration.kind = "pending"
    /\ rsi_acceleration' = calculate_rsi_acceleration(acc_series)
    /\ UNCHANGED <<acc_series, price_acceleration, obv_acceleration>>
    /\ AccFrame

CallCalculatePriceAcceleration ==
    /\ price_acceleration.kind = "pending"
    /\ price_acceleration' = calculate_price_acceleration(acc_series)
    /\ UNCHANGED <<acc_series, rsi_acceleration, obv_acceleration>>
    /\ AccFrame

CallCalculateObvAcceleration ==
    /\ obv_acceleration.kind = "pending"
    /\ obv_acceleration' = calculate_obv_acceleration(acc_series)
    /\ UNCHANGED <<acc_series, rsi_acceleration, price_acceleration>>
    /\ AccFrame

----------------------------------------------------------------------------
(* The detectors of src/src/rsi.py and src/src/indicators.py called with   *)
(* series whose length is around the minimum each of them tests for.       *)

Slack == 1

\* lengths from Slack below n to Slack above n
Around(n) == {k \in (n - Slack)..(n + Slack) : k >= 0}

DetPending == [kind |-> "pending"]

DetCall(fn, series, other, param) ==
    [fn |-> fn, series |-> series, other |-> other, param |-> param]

SeriesAround(n, S) == UNION {[1..k -> S] : k \in Around(n)}

\* a call of each detector: the second series and the parameter are those
\* of the detector's signature (period, lookback, oversold flag as 1/0)
DetectorCalls ==
    {DetCall(fn, cs, << >>, p) :
        fn \in {"calculate_rsi", "calculate_rsi_history"},
        cs \in UNION {SeriesAround(p + 1, {1, 2}) : p \in 1..2}, p \in 1..2}
    \cup {DetCall("detect_regime", h, << >>, 0) : h \in SeriesAround(4, {46, 54})}
    \cup {DetCall("calculate_zscore", StepSeries(n, j, 40, 50), << >>, lb) :
            n \in Around(10), j \in {0, 5}, lb \in {10, 90}}
    \cup {DetCall("calculate_beta_adjusted_rsi",
                  StepSeries(n, 15, u, 1), StepSeries(m, 15, 1, v), 0) :
            n \in Around(30), m \in Around(30), u \in {0, 1}, v \in {0, 1}}
    \cup {DetCall("detect_volatility_regime", prices, << >>, 1) :
            prices \in SeriesAround(5, {1, 2})}
    \cup {DetCall("detect_divergence", prices, rsis, 3) :
            prices \in SeriesAround(3, {1, 2}), rsis \in SeriesAround(3, {40, 45})}
    \cup {DetCall("classify_signal_lifecycle", h, << >>, oversold) :
            h \in SeriesAround(5, {25, 35}), oversold \in {0, 1}}
    \cup {DetCall(fn, v, << >>, 0) :
            fn \in {"calculate_rsi_acceleration", "calculate_price_acceleration",
                    "calculate_obv_acceleration"},
            v \in SeriesAround(3, {0, 1, 2})}

DetInit ==
    /\ det_call \in DetectorCalls
    /\ det_result = DetPending

DetIdle ==
    /\ det_call = DetCall("", << >>, << >>, 0)
    /\ det_result = DetPending

\* the call det_call describes, not yet made
Calling(fn) == det_call.fn = fn /\ det_result.kind = "pending"

DetCalculateRsi ==
    /\ Calling("calculate_rsi")
    /\ det_result' = calculate_rsi(det_call.series, det_call.param)
    /\ UNCHANGED det_call
    /\ DetFrame

DetCalculateRsiHistory ==
    /\ Calling("calculate_rsi_history")
    /\ det_result' = calculate_rsi_history(det_call.series, det_call.param)
    /\ UNCHANGED det_call
    /\ DetFrame

DetDetectRegime ==
    /\ Calling("detect_regime")
    /\ det_result' = detect_regime(det_call.series)
    /\ UNCHANGED det_call
    /\ DetFrame

DetCalculateZscore ==
    /\ Calling("calculate_zscore")
    /\ \E err \in MeanRoundingErrors :
          det_result' = calculate_zscore(det_call.series, det_call.param, err)
    /\ UNCHANGED det_call
    /\ DetFrame

DetCalculateBetaAdjustedRsi ==
    /\ Calling("calculate_beta_adjusted_rsi")
    /\ det_result' = calculate_beta_adjusted_rsi(det_call.series, det_call.other, 45, 60)
    /\ UNCHANGED det_call
    /\ DetFrame

DetDetectVolatilityRegime ==
    /\ Calling("detect_volatility_regime")
    /\ det_result' = detect_volatility_regime(det_call.series, det_call.param)
    /\ UNCHANGED det_call
    /\ DetFrame

DetDetectDivergence ==
    /\ Calling("detect_divergence")
    /\ det_result' = detect_divergence(det_call.series, det_call.other, det_call.param)
    /\ UNCHANGED det_call
    /\ DetFrame

DetClassifySignalLifecycle ==
    /\ Calling("classify_signal_lifecycle")
    /\ det_result' = classify_signal_lifecycle(
                        det_call.series, IF det_call.param = 1 THEN 30 ELSE 70,
                        det_call.param = 1)
    /\ UNCHANGED det_call
    /\ DetFrame

DetCalculateRsiAcceleration ==
    /\ Calling("calculate_rsi_acceleration")
    /\ det_result' = calculate_rsi_acceleration(det_call.series)
    /\ UNCHANGED det_call
    /\ DetFrame

DetCalculatePriceAcceleration ==
    /\ Calling("calculate_price_acceleration")
    /\ det_result' = calculate_price_acceleration(det_call.series)
    /\ UNCHANGED det_call
    /\ DetFrame

DetCalculateObvAcceleration ==
    /\ Calling("calculate_obv_acceleration")
    /\ det_result' = calculate_obv_acceleration(det_call.series)
    /\ UNCHANGED det_call
    /\ DetFrame

----------------------------------------------------------------------------
(* The rolling RSI history as written three times: calculate_rsi_history   *)
(* in src/src/rsi.py, get_rsi_history in src/app.py, and the               *)
(* get_rsi_history nested in calculate_multi_tf_divergence of              *)
(* src/src/indicators.py; each is called on the same closes and period,    *)
(* next to calculate_rsi.                                                  *)

HstMaxLen == 4

get_rsi_history_seed_only(cs, p) ==
    IF Len(cs) < p + 1 THEN [kind |-> "value", vals |-> << >>]
    ELSE LET deltas == Deltas(cs)
             gains  == Gains(deltas)
             losses == Losses(deltas)
         IN  HistResult(<<RsiFromAverages(FirstAverage(gains, p),
                                          FirstAverage(losses, p))>>)

\* src/app.py
get_rsi_history(cs, p) ==
    IF Len(cs) < p + 1 THEN [kind |-> "value", vals |-> << >>]
    ELSE LET deltas == Deltas(cs)
             gains  == Gains(deltas)
             losses == Losses(deltas)
             avg_gain == FirstAverage(gains, p)
             avg_loss == FirstAverage(losses, p)
             first_rsi == IF RIsZero(avg_loss) THEN Num(100)
                          ELSE RSub(Num(100),
                                    RDiv(Num(100), RAdd(Num(1), RDiv(avg_gain, avg_loss))))
         IN  HistResult(RsiHistoryLoop(gains, losses, p, p + 1, avg_gain, avg_loss,
                                       <<first_rsi>>))

\* src/src/indicators.py, inside calculate_multi_tf_divergence
multi_tf_get_rsi_history(cs, p) ==
    IF Len(cs) < p + 1 THEN [kind |-> "value", vals |-> << >>]
    ELSE LET deltas == Deltas(cs)
             gains  == Gains(deltas)
             losses == Losses(deltas)
             avg_gain == FirstAverage(gains, p)
             avg_loss == FirstAverage(losses, p)
         IN  HistResult(RsiHistoryLoop(gains, losses, p, p + 1, avg_gain, avg_loss,
                                       <<RsiFromAverages(avg_gain, avg_loss)>>))

HstInit ==
    /\ hst_closes \in SeqsUpTo({1, 2, 4}, HstMaxLen)
    /\ hst_period \in 1..3
    /\ hst_rsi = RsiPending
    /\ hst_history = HistPending
    /\ hst_app_history = HistPending
    /\ hst_nested_history = HistPending

HstIdle ==
    /\ hst_closes = << >>
    /\ hst_period = 1
    /\ hst_rsi = RsiPending
    /\ hst_history = HistPending
    /\ hst_app_history = HistPending
    /\ hst_nested_history = HistPending

HstCalculateRsi ==
    /\ hst_rsi.kind = "pending"
    /\ hst_rsi' = calculate_rsi(hst_closes, hst_period)
    /\ UNCHANGED <<hst_closes, hst_period, hst_history, hst_app_history, hst_nested_history>>
    /\ HstFrame

HstCalculateRsiHistory ==
    /\ hst_history.kind = "pending"
    /\ hst_history' = calculate_rsi_history(hst_closes, hst_period)
    /\ UNCHANGED <<hst_closes, hst_period, hst_rsi, hst_app_history, hst_nested_history>>
    /\ HstFrame

HstGetRsiHistory ==
    /\ hst_app_history.kind = "pending"
    /\ hst_app_history' = get_rsi_history(hst_closes, hst_period)
    /\ UNCHANGED <<hst_closes, hst_period, hst_rsi, hst_history, hst_nested_history>>
    /\ HstFrame

HstMultiTfGetRsiHistory ==
    /\ hst_nested_history.kind = "pending"
    /\ hst_nested_history' = multi_tf_get_rsi_history(hst_closes, hst_period)
    /\ UNCHANGED <<hst_closes, hst_period, hst_rsi, hst_history, hst_app_history>>
    /\ HstFrame

----------------------------------------------------------------------------
(* src/app.py: fetch_all_data and the "Refresh Data" handler               *)
(*                                                                         *)
(* A market chart is represented by what rsi.py and indicators.py compute  *)
(* from its prices (the RSI histories, the daily returns, the volatility   *)
(* regime and the daily divergence), each with the length the number of    *)
(* daily prices gives it: period 14 over 120 days of prices is beyond      *)
(* exact arithmetic, and the functions themselves are specified above.     *)
(* RSI histories alternate between two levels, so that the standard        *)
(* deviation of a window is rational.                                      *)

\* the clock runs from 0 to MaxMinutes
MaxMinutes == 20

HOURLY_CACHE_TTL_MINUTES == 60

RsiPeriod == 14

\* n values: pairs (a, b), then the tail
BalancedHistory(n, a, b, tail) ==
    [i \in 1..(n - Len(tail)) |-> IF i % 2 = 1 THEN a ELSE b] \o tail

\* n daily % returns that end with a flat day after alternating between
\* +amplitude and -amplitude: every odd number of trailing days averages 0
DailyReturns(n, amplitude) ==
    [i \in 1..n |-> IF i = n THEN 0
                    ELSE IF (n - i) % 2 = 1 THEN amplitude ELSE -amplitude]

\* the chart of `days` daily prices whose daily RSI history ends with tail
\* and whose ISO weeks give the weekly RSI history `weekly`
Chart(days, amplitude, a, b, tail, weekly, vol_regime, div) ==
    [days               |-> days,
     daily_rsi_history  |-> IF days < RsiPeriod + 1 THEN << >>
                            ELSE BalancedHistory(days - RsiPeriod, a, b, tail),
     weekly_rsi_history |-> weekly,
     returns            |-> DailyReturns(days - 1, amplitude),
     volatility         |-> IF days >= 4 * RsiPeriod + 1
                            THEN ("regime" :> vol_regime) ELSE PyNone,
     daily_div          |-> IF days >= 2 * RsiPeriod THEN div ELSE PyNone]

NoDivergence == ("type" :> "none") @@ ("strength" :> 0)

Bullish == ("type" :> "bullish") @@ ("strength" :> 2)

\* three days beyond the threshold, and a signal that left the zone today
InZoneTail(a, b) == <<a, a, a, b, b, b>>

ResolvingTail(a, b) == <<a, a, b, b, b, a>>

\* 120 days with 4 weekly RSI values, or bitcoin's history missing
BitcoinCharts ==
    { Chart(120, 1, 40, 20, InZoneTail(40, 20), <<46, 47, 50, 51>>, "normal", Bullish),
      Chart(120, 1, 54, 50, InZoneTail(54, 50), <<54, 54, 51, 46>>, "compressed", NoDivergence) }

\* 94 days with a weekly RSI, or 50 days without one
EthereumCharts ==
    { Chart(50, -1, 40, 20, InZoneTail(40, 20), << >>, "normal", NoDivergence),
      Chart(94, -1, 60, 80, InZoneTail(60, 80), <<75>>, "normal", NoDivergence) }

\* 10 days without any RSI, 50 days, or 94 days
UniswapCharts ==
    { Chart(10, 2, 40, 20, << >>, << >>, "normal", NoDivergence),
      Chart(50, 2, 40, 20, InZoneTail(40, 20), << >>, "normal", NoDivergence),
      Chart(94, 2, 40, 20, ResolvingTail(40, 20), <<50>>, "normal", NoDivergence),
      Chart(94, 2, 40, 20, InZoneTail(40, 20), <<25>>, "compressed", Bullish) }

\* the dict get_coins_history returns: failed fetches are left out
Histories ==
    { Entry("bitcoin", b) @@ Entry("ethereum", e) @@ Entry("uniswap", u) :
        b \in Optional(BitcoinCharts), e \in {<<c>> : c \in EthereumCharts},
        u \in Optional(UniswapCharts) }

\* the list get_coins_market_data returns, as a lookup by id
MarketLookups ==
    { ("bitcoin" :> (("id" :> "bitcoin") @@ ("market_cap" :> 3000)))
      @@ Entry("ethereum", e)
      @@ ("uniswap" :> (("id" :> "uniswap") @@ ("market_cap" :> cap))) :
        e \in Optional({("id" :> "ethereum") @@ ("market_cap" :> 1000)}),
        cap \in {0, 1000} }


\* calculate_rsi(extract_closes(chart)): the last value of the RSI history,
\* None (<< >>) below period + 1 closes
get_daily_rsi(chart) ==
    IF chart.daily_rsi_history = << >> THEN << >>
    ELSE <<FromEnd(chart.daily_rsi_history, 1)>>

\* the RSI of the ISO-week closes, None below period + 1 weeks
get_weekly_rsi(chart) ==
    IF chart.weekly_rsi_history = << >> THEN << >>
    ELSE <<FromEnd(chart.weekly_rsi_history, 1)>>

\* the BTC regime, and the returns and daily RSI of the BTC and ETH benchmarks
Benchmarks(hist) ==
    LET has_btc == "bitcoin" \in DOMAIN hist
        has_eth == "ethereum" \in DOMAIN hist
        btc_weekly_rsi_history_ ==
            IF has_btc THEN hist["bitcoin"].weekly_rsi_history ELSE << >>
    IN  [btc_regime     |-> IF btc_weekly_rsi_history_ # << >>
                            THEN detect_regime(btc_weekly_rsi_history_) ELSE RegimeNone,
         btc_weekly_rsi |-> IF btc_weekly_rsi_history_ # << >>
                            THEN <<FromEnd(btc_weekly_rsi_history_, 1)>> ELSE << >>,
         btc_returns    |-> IF has_btc THEN hist["bitcoin"].returns ELSE << >>,
         btc_daily_rsi  |-> IF has_btc THEN get_daily_rsi(hist["bitcoin"]) ELSE << >>,
         eth_returns    |-> IF has_eth THEN hist["ethereum"].returns ELSE << >>,
         eth_daily_rsi  |-> IF has_eth THEN get_daily_rsi(hist["ethereum"]) ELSE << >>]

ExcludedIds ==
    {"bitcoin", "ethereum", "tether", "usd-coin", "dai", "binance-usd",
     "true-usd", "frax", "paxos-standard"}

\* the altcoins that enter the synthetic index: watchlist entries outside
\* ExcludedIds with a chart, market data, a positive cap and some returns
AltcoinData(ids, market, hist) ==
    SelectSeq(ids, LAMBDA c :
        /\ c \notin ExcludedIds
        /\ c \in DOMAIN hist /\ c \in DOMAIN market
        /\ hist[c].days >= 2
        /\ Get(market[c], "market_cap", 0) > 0
        /\ hist[c].returns # << >>)

\* the cap-weighted returns over the last min_len days of every altcoin and
\* the RSI of the index built from them.  The watchlists of the model hold
\* one altcoin: the index is then its price series rescaled to start at
\* 100, and the RSI does not change under rescaling.
Total3(ids, market, hist) ==
    LET altcoin_data == AltcoinData(ids, market, hist)
        k          == Len(altcoin_data)
        lens       == {Len(hist[altcoin_data[i]].returns) : i \in 1..k}
        min_len    == CHOOSE m \in lens : \A l \in lens : m <= l
        caps       == [i \in 1..k |-> market[altcoin_data[i]]["market_cap"]]
        total_mcap == SumSeq(caps, 1, k)
        Weighted(day_idx) ==
            SumSeq([i \in 1..k |->
                       LET returns == hist[altcoin_data[i]].returns
                       IN  returns[Len(returns) - min_len + day_idx] * caps[i]],
                   1, k) \div total_mcap
    IN  IF k > 0 /\ min_len >= 30
        THEN [members   |-> altcoin_data,
              returns   |-> [d \in 1..min_len |-> Weighted(d)],
              daily_rsi |-> get_daily_rsi(hist[altcoin_data[1]])]
        ELSE [members |-> altcoin_data, returns |-> << >>, daily_rsi |-> << >>]

\* rsi_history[-30:] if len(rsi_history) >= 30 else rsi_history
Last30(h) == IF Len(h) >= 30 THEN LastN(h, 30) ELSE h

CoinsForSectorWithCap(ids, market, hist, with_history) ==
    LET eligible == SelectSeq(ids, LAMBDA c :
                        /\ c \in DOMAIN market /\ c \in DOMAIN hist
                        /\ get_daily_rsi(hist[c]) # << >>
                        /\ Get(market[c], "market_cap", 0) > 0)
    IN  [i \in 1..Len(eligible) |->
            LET c == eligible[i]
            IN  ("id" :> c) @@ ("daily_rsi" :> get_daily_rsi(hist[c])[1])
                @@ ("market_cap" :> Get(market[c], "market_cap", 0))
                @@ (IF with_history
                    THEN ("rsi_history" :> Last30(hist[c].daily_rsi_history))
                    ELSE EmptyDict)]

\* coins_for_sector_pre (with the RSI history) and coins_for_sector: one
\* dict per watchlist entry that has market data, a chart and a daily RSI
CoinsForSector(ids, market, hist, with_history) ==
    LET eligible == SelectSeq(ids, LAMBDA c :
                        /\ c \in DOMAIN market /\ c \in DOMAIN hist
                        /\ get_daily_rsi(hist[c]) # << >>)
    IN  [i \in 1..Len(eligible) |->
            LET c == eligible[i]
            IN  ("id" :> c) @@ ("daily_rsi" :> get_daily_rsi(hist[c])[1])
                @@ ("market_cap" :> Get(market[c], "market_cap", 0))
                @@ (IF with_history
                    THEN ("rsi_history" :> Last30(hist[c].daily_rsi_history))
                    ELSE EmptyDict)]

\* the root of a square number
ISqrt(k) == CHOOSE r \in 0..k : r * r = k

\* zscore_info.get("zscore", 0): round((current - mean) / std, 4)
ZscoreValue(info) ==
    Round(Rat(info.zscore_sign * ISqrt(info.zscore_sq.n), ISqrt(info.zscore_sq.d)), 4)

DaysInZoneSwapped(signal_direction, lifecycle_oversold, lifecycle_overbought) ==
    IF signal_direction = "short" /\ lifecycle_oversold.kind = "value"
    THEN lifecycle_oversold.days_in_zone
    ELSE IF signal_direction = "long" /\ lifecycle_overbought.kind = "value"
    THEN lifecycle_overbought.days_in_zone
    ELSE 0

\* the oversold lifecycle counts for a long signal, the overbought one for a
\* short signal; 0 without a lifecycle
DaysInZone(signal_direction, lifecycle_oversold, lifecycle_overbought) ==
    IF signal_direction = "long" /\ lifecycle_oversold.kind = "value"
    THEN lifecycle_oversold.days_in_zone
    ELSE IF signal_direction = "short" /\ lifecycle_overbought.kind = "value"
    THEN lifecycle_overbought.days_in_zone
    ELSE 0

\* one pass of the main loop for an entry with a daily and a weekly RSI:
\* the coin_data dict, the divergence entry and the factors of the score
CoinRecord(coin_id, market, chart, bench, total3, momentum) ==
    LET daily_rsi  == get_daily_rsi(chart)[1]
        weekly_rsi == get_weekly_rsi(chart)[1]
        own_returns == chart.returns
        BetaAgainst(returns, bench_rsi) ==
            LET min_len == Min(Len(own_returns), Len(returns))
            IN  IF chart.days >= 2 /\ Len(returns) >= 30 /\ bench_rsi # << >> /\ min_len >= 30
                THEN calculate_beta_adjusted_rsi(LastN(own_returns, min_len),
                                                 LastN(returns, min_len), daily_rsi, bench_rsi[1])
                ELSE BetaNone
        beta_info_btc == BetaAgainst(bench.btc_returns, bench.btc_daily_rsi)
        daily_rsi_history == chart.daily_rsi_history
        lifecycle_oversold ==
            IF Len(daily_rsi_history) >= 5
            THEN classify_signal_lifecycle(daily_rsi_history, 30, TRUE) ELSE LifecycleNone
        lifecycle_overbought ==
            IF Len(daily_rsi_history) >= 5
            THEN classify_signal_lifecycle(daily_rsi_history, 70, FALSE) ELSE LifecycleNone
        \* 120 days of prices give at most 18 weekly closes: never 14 weekly RSI values
        weekly_div == PyNone
        score_ == calculate_divergence_score(chart.daily_div, weekly_div).val
        div_type == IF HasDivergence(chart.daily_div) THEN chart.daily_div["type"]
                    ELSE IF HasDivergence(weekly_div) THEN weekly_div["type"] ELSE "none"
        sector == get_sector(coin_id)
        signal_direction == IF daily_rsi < 50 THEN "long" ELSE "short"
        zscore_info_ == IF Len(daily_rsi_history) >= 10
                        THEN calculate_zscore(daily_rsi_history, 90, 0) ELSE ZscoreNone
        interp == beta_info_btc.interpretation
        opportunity_factors ==
            [zscore                 |-> IF zscore_info_.kind = "value"
                                        THEN ZscoreValue(zscore_info_) ELSE Num(0),
             days_in_zone           |-> DaysInZone(signal_direction, lifecycle_oversold,
                                                   lifecycle_overbought),
             weekly_extreme         |-> weekly_rsi < 30 \/ weekly_rsi > 70,
             divergence_score       |-> score_,
             volatility_compressed  |-> /\ chart.volatility # PyNone
                                        /\ Get(chart.volatility, "regime", "") = "compressed",
             sector_turning         |-> /\ sector \in DOMAIN momentum
                                        /\ momentum[sector].is_rotation_signal,
             funding_aligned        |-> FALSE,
             decorrelation_positive |-> /\ beta_info_btc.kind = "value"
                                        /\ \/ signal_direction = "long" /\ interp = "outperforming"
                                           \/ signal_direction = "short" /\ interp = "underperforming"]
    IN  [coin_data |->
            [id                   |-> coin_id,
             daily_rsi            |-> daily_rsi,
             weekly_rsi           |-> weekly_rsi,
             market_cap           |-> Get(market, "market_cap", 0),
             beta_info            |-> beta_info_btc,
             beta_info_btc        |-> beta_info_btc,
             beta_info_eth        |-> BetaAgainst(bench.eth_returns, bench.eth_daily_rsi),
             beta_info_total3     |-> BetaAgainst(total3.returns, total3.daily_rsi),
             lifecycle_oversold   |-> lifecycle_oversold,
             lifecycle_overbought |-> lifecycle_overbought,
             volatility           |-> chart.volatility,
             acceleration         |-> IF Len(daily_rsi_history) >= 3
                                      THEN calculate_rsi_acceleration(daily_rsi_history)
                                      ELSE AccNone,
             rsi_history          |-> Last30(daily_rsi_history),
             sector               |-> sector,
             signal_direction     |-> signal_direction,
             zscore_info          |-> zscore_info_,
             opportunity_score    |-> calculate_opportunity_score(opportunity_factors)],
         divergence |-> [type |-> div_type, score |-> score_],
         opportunity_factors |-> opportunity_factors]

\* "best" for the first coin of the lowest daily RSI in the record's sector,
\* "worst" for the last coin of the highest, None (<< >>) otherwise and in a
\* sector of fewer than 2 coins
SectorRank(coin_id, sector, sector_rsi_, coins_for_sector) ==
    IF sector \notin DOMAIN sector_rsi_ THEN << >>
    ELSE LET sector_coins == sector_rsi_[sector].coins
             members == SelectSeq(coins_for_sector, LAMBDA c :
                            \E i \in 1..Len(sector_coins) : sector_coins[i] = c["id"])
             n == Len(members)
             best  == CHOOSE i \in 1..n :
                         /\ \A j \in 1..n : members[i]["daily_rsi"] <= members[j]["daily_rsi"]
                         /\ \A j \in 1..(i - 1) : members[j]["daily_rsi"] > members[i]["daily_rsi"]
             worst == CHOOSE i \in 1..n :
                         /\ \A j \in 1..n : members[i]["daily_rsi"] >= members[j]["daily_rsi"]
                         /\ \A j \in (i + 1)..n : members[j]["daily_rsi"] < members[i]["daily_rsi"]
         IN  IF Len(sector_coins) < 2 \/ n < 2 THEN << >>
             ELSE IF members[best]["id"] = coin_id THEN <<"best">>
             ELSE IF members[worst]["id"] = coin_id THEN <<"worst">>
             ELSE << >>

\* the hourly chart of a coin, represented by its 1h RSI
HourlyHistory == ("bitcoin" :> [rsi_1h |-> 55])

\* data/hourly_data.json: missing, unreadable, without a timestamp, or
\* written at last_updated
HourlyCaches ==
    { [kind |-> k, last_updated |-> 0, hourly_history |-> EmptyDict] :
        k \in {"missing", "unreadable"} }
    \cup { [kind |-> "no_timestamp", last_updated |-> 0, hourly_history |-> HourlyHistory] }
    \cup { [kind |-> "ok", last_updated |-> t, hourly_history |-> HourlyHistory] :
             t \in {-60, -40, 0} }

\* load_hourly_data() is not None, last_updated is a datetime, and its age
\* in minutes is below the TTL
is_hourly_cache_valid(cache, clock) ==
    /\ cache.kind = "ok"
    /\ clock - cache.last_updated < HOURLY_CACHE_TTL_MINUTES

\* the values a refresh replaces in st.session_state
NoSession ==
    [coin_data |-> << >>, divergence_data |-> << >>, last_updated |-> << >>,
     failed_coins |-> 0, btc_regime |-> RegimeNone, btc_weekly_rsi |-> << >>,
     multi_tf_rsi |-> EmptyDict]

\* what an earlier process left in data/screener_data.json
EarlierSave ==
    [coin_data |-> << << >> >>, divergence_data |-> << << >> >>, last_updated |-> <<-100>>,
     failed_coins |-> 3, btc_regime |-> RegimeNone, btc_weekly_rsi |-> << >>,
     multi_tf_rsi |-> EmptyDict]

\* the locals of fetch_all_data before its first statement
RunStart ==
    [requests |-> {}, error |-> "", cache_valid |-> FALSE, hourly_history |-> EmptyDict,
     bench |-> << >>, total3 |-> << >>, sector_momentum |-> << >>,
     sector_rsi |-> << >>,
     result |-> << >>, divergence_result |-> << >>, failed_count |-> 0,
     next |-> 1, opportunity_factors |-> EmptyDict, multi_tf_rsi_all |-> EmptyDict]

\* every answer of the provider with a cache that is valid at the start,
\* expires before the clock stops, and no saved data; every state of the cache and of the saved data with any
\* one answer of the provider
RefreshInputs ==
    { [market_lookup |-> m, charts |-> h, hourly_cache |-> c, data_file |-> << >>] :
        m \in MarketLookups, h \in Histories,
        c \in {x \in HourlyCaches : is_hourly_cache_valid(x, 0)
                                     /\ ~is_hourly_cache_valid(x, MaxMinutes)} }
    \cup { [market_lookup |-> CHOOSE m \in MarketLookups : TRUE,
            charts |-> CHOOSE h \in Histories : TRUE,
            hourly_cache |-> c, data_file |-> f] :
             c \in HourlyCaches, f \in {<< >>, <<EarlierSave>>} }

RefInit ==
    /\ coin_ids = <<"uniswap", "bitcoin", "ethereum">>
    /\ \E given \in RefreshInputs :
          /\ market_lookup = given.market_lookup
          /\ charts = given.charts
          /\ hourly_cache = given.hourly_cache
          /\ data_file = given.data_file
    /\ session = (IF data_file = << >> THEN NoSession ELSE data_file[1])
    /\ now = 0
    /\ pc = "idle"
    /\ run = RunStart

RefIdle ==
    /\ coin_ids = << >>
    /\ market_lookup = EmptyDict
    /\ charts = EmptyDict
    /\ hourly_cache = [kind |-> "missing", last_updated |-> 0, hourly_history |-> EmptyDict]
    /\ data_file = << >>
    /\ session = NoSession
    /\ now = 0
    /\ pc = "idle"
    /\ run = RunStart

provided == <<coin_ids, market_lookup, charts>>

\* time passes between two refreshes
Tick ==
    /\ pc = "idle"
    /\ now + 20 <= MaxMinutes
    /\ now' = now + 20
    /\ UNCHANGED <<provided, hourly_cache, data_file, session, pc, run>>
    /\ RefFrame

ClickRefreshKeepingCount ==
    /\ pc = "idle"
    /\ pc' = "fetch"
    /\ run' = [RunStart EXCEPT !.failed_count = run.failed_count]
    /\ UNCHANGED <<provided, hourly_cache, data_file, session, now>>
    /\ RefFrame

\* st.button("Refresh Data"): asyncio.run(fetch_all_data(coin_ids)) starts
ClickRefresh ==
    /\ pc = "idle"
    /\ pc' = "fetch"
    /\ run' = RunStart
    /\ UNCHANGED <<provided, hourly_cache, data_file, session, now>>
    /\ RefFrame

\* get_coins_market_data and get_coins_history: a response other than 200
\* to the markets request raises CoinGeckoError; charts that fail are left
\* out of the history
FetchMarketAndHistory ==
    /\ pc = "fetch"
    /\ \E ok \in BOOLEAN :
          IF ok
          THEN /\ pc' = "hourly"
               /\ run' = [run EXCEPT !.requests = {"markets", "market_chart"}]
          ELSE /\ pc' = "raised"
               /\ run' = [run EXCEPT !.requests = {"markets"},
                                     !.error = "CoinGeckoError"]
    /\ UNCHANGED <<provided, hourly_cache, data_file, session, now>>
    /\ RefFrame

\* the cached hourly history if the cache is valid; otherwise the call of
\* client.get_coins_hourly_history, a method CoinGeckoClient does not
\* have: AttributeError, before any request and before save_hourly_data
FetchHourly ==
    /\ pc = "hourly"
    /\ LET valid == is_hourly_cache_valid(hourly_cache, now)
       IN  IF valid
           THEN /\ pc' = "benchmarks"
                /\ run' = [run EXCEPT !.cache_valid = TRUE,
                                      !.hourly_history = hourly_cache.hourly_history]
           ELSE /\ pc' = "raised"
                /\ run' = [run EXCEPT !.cache_valid = FALSE, !.error = "AttributeError"]
    /\ UNCHANGED <<provided, hourly_cache, data_file, session, now>>
    /\ RefFrame

\* the BTC regime and the BTC, ETH and Total3 returns and daily RSI
ComputeBenchmarks ==
    /\ pc = "benchmarks"
    /\ pc' = "sector_pre"
    /\ run' = [run EXCEPT !.bench = <<Benchmarks(charts)>>,
                          !.total3 = <<Total3(coin_ids, market_lookup, charts)>>]
    /\ UNCHANGED <<provided, hourly_cache, data_file, session, now>>
    /\ RefFrame

\* coins_for_sector_pre and calculate_sector_momentum
ComputeSectorMomentum ==
    /\ pc = "sector_pre"
    /\ LET momentum == calculate_sector_momentum(
                           CoinsForSector(coin_ids, market_lookup, charts, TRUE))
       IN  IF momentum.kind = "raise"
           THEN /\ pc' = "raised"
                /\ run' = [run EXCEPT !.error = "ZeroDivisionError"]
           ELSE /\ pc' = "main_loop"
                /\ run' = [run EXCEPT !.sector_momentum = <<momentum.sectors>>]
    /\ UNCHANGED <<provided, hourly_cache, data_file, session, now>>
    /\ RefFrame

\* for coin_id in coin_ids: an entry without market data, chart, daily RSI
\* or weekly RSI is counted and skipped
IsFailedOrNoMarketCap(coin_id) ==
    \/ coin_id \notin DOMAIN market_lookup
    \/ coin_id \notin DOMAIN charts
    \/ get_daily_rsi(charts[coin_id]) = << >>
    \/ get_weekly_rsi(charts[coin_id]) = << >>
    \/ market_lookup[coin_id].market_cap = 0

IsFailed(coin_id) ==
    \/ coin_id \notin DOMAIN market_lookup
    \/ coin_id \notin DOMAIN charts
    \/ get_daily_rsi(charts[coin_id]) = << >>
    \/ get_weekly_rsi(charts[coin_id]) = << >>

ProcessCoinPlaceholder ==
    /\ pc = "main_loop"
    /\ run.next <= Len(coin_ids)
    /\ LET coin_id == coin_ids[run.next]
       IN  IF IsFailed(coin_id)
           THEN run' = [run EXCEPT !.failed_count = @ + 1, !.next = @ + 1,
                                  !.divergence_result = Append(@, [type |-> "none", score |-> 0])]
           ELSE LET r == CoinRecord(coin_id, market_lookup[coin_id], charts[coin_id],
                                    run.bench[1], run.total3[1], run.sector_momentum[1])
                IN  run' = [run EXCEPT !.result = Append(@, r.coin_data),
                                       !.divergence_result = Append(@, r.divergence),
                                       !.opportunity_factors = r.opportunity_factors,
                                       !.next = @ + 1]
    /\ UNCHANGED <<provided, hourly_cache, data_file, session, now, pc>>
    /\ RefFrame

\* one iteration of the main loop
ProcessCoin ==
    /\ pc = "main_loop"
    /\ run.next <= Len(coin_ids)
    /\ LET coin_id == coin_ids[run.next]
       IN  IF IsFailed(coin_id)
           THEN run' = [run EXCEPT !.failed_count = @ + 1, !.next = @ + 1]
           ELSE LET r == CoinRecord(coin_id, market_lookup[coin_id], charts[coin_id],
                                    run.bench[1], run.total3[1], run.sector_momentum[1])
                IN  run' = [run EXCEPT !.result = Append(@, r.coin_data),
                                       !.divergence_result = Append(@, r.divergence),
                                       !.opportunity_factors = r.opportunity_factors,
                                       !.next = @ + 1]
    /\ UNCHANGED <<provided, hourly_cache, data_file, session, now, pc>>
    /\ RefFrame

\* calculate_multi_tf_rsi of one coin, restricted to the 1h, 1d and 1w
\* timeframes
MultiTfRsi(hourly, daily) ==
    (IF hourly # << >> THEN ("1h" :> hourly[1].rsi_1h) ELSE EmptyDict)
    @@ (IF daily # << >> /\ get_daily_rsi(daily[1]) # << >>
        THEN ("1d" :> get_daily_rsi(daily[1])[1]) ELSE EmptyDict)
    @@ (IF daily # << >> /\ get_weekly_rsi(daily[1]) # << >>
        THEN ("1w" :> get_weekly_rsi(daily[1])[1]) ELSE EmptyDict)

Lookup(dict, key) == IF key \in DOMAIN dict THEN <<dict[key]>> ELSE << >>

\* after the loop: the sector RSI, the sector rank of every record, the
\* multi-timeframe RSI of every watchlist entry, and the return
FinishRun ==
    /\ pc = "main_loop"
    /\ run.next > Len(coin_ids)
    /\ LET coins_for_sector == CoinsForSector(coin_ids, market_lookup, charts, FALSE)
           sector_rsi_      == calculate_sector_rsi(coins_for_sector)
           ids == {coin_ids[i] : i \in 1..Len(coin_ids)}
           multi == [c \in ids |-> MultiTfRsi(Lookup(run.hourly_history, c), Lookup(charts, c))]
       IN  IF sector_rsi_.kind = "raise"
           THEN /\ pc' = "raised"
                /\ run' = [run EXCEPT !.error = "ZeroDivisionError"]
           ELSE /\ pc' = "returned"
                /\ run' = [run EXCEPT
                      !.sector_rsi = <<sector_rsi_.sectors>>,
                      !.result = [i \in 1..Len(@) |->
                                    @[i] @@ ("sector_rank" :>
                                        SectorRank(@[i].id, @[i].sector,
                                                   sector_rsi_.sectors, coins_for_sector))],
                      !.multi_tf_rsi_all =
                          [c \in {x \in ids : multi[x] # EmptyDict} |-> multi[c]]]
    /\ UNCHANGED <<provided, hourly_cache, data_file, session, now>>
    /\ RefFrame

\* the values save_data writes and the handler stores
Committed(r, clock) ==
    [coin_data |-> <<r.result>>, divergence_data |-> <<r.divergence_result>>,
     last_updated |-> <<clock>>, failed_coins |-> r.failed_count,
     btc_regime |-> r.bench[1].btc_regime, btc_weekly_rsi |-> r.bench[1].btc_weekly_rsi,
     multi_tf_rsi |-> r.multi_tf_rsi_all]

\* fetch_all_data returned: the session values are replaced, then saved;
\* save_data may fail on the file system, which the handler reports
Commit ==
    /\ pc = "returned"
    /\ session' = Committed(run, now)
    /\ \E saved \in BOOLEAN :
          data_file' = IF saved
                       THEN <<[Committed(run, now) EXCEPT !.multi_tf_rsi = EmptyDict]>>
                       ELSE data_file
    /\ pc' = "idle"
    /\ UNCHANGED <<provided, hourly_cache, now, run>>
    /\ RefFrame

ShowErrorClearingSession ==
    /\ pc = "raised"
    /\ pc' = "idle"
    /\ session' = NoSession
    /\ UNCHANGED <<provided, hourly_cache, data_file, now, run>>
    /\ RefFrame

\* except Exception: st.error(...)
ShowError ==
    /\ pc = "raised"
    /\ pc' = "idle"
    /\ UNCHANGED <<provided, hourly_cache, data_file, session, now, run>>
    /\ RefFrame

\* the sector filter of the page: the records of the selected sector, and
\* the divergence entries at the indexes of those records
FilteredCoinData(selected_sector) ==
    SelectSeq(session.coin_data[1], LAMBDA c : Get(c, "sector", "") = selected_sector)

FilteredDivergenceData(selected_sector) ==
    LET coin_data == session.coin_data[1]
        kept == SelectSeq([i \in 1..Len(coin_data) |-> i],
                          LAMBDA i : Get(coin_data[i], "sector", "") = selected_sector)
    IN  [k \in 1..Len(kept) |-> session.divergence_data[1][kept[k]]]

----------------------------------------------------------------------------
(* Specifications, one per component; the other components stay idle *)

InitRsi == RsiInit /\ OppIdle /\ LifeIdle /\ DivIdle /\ DscIdle /\ SecIdle /\ RegIdle
    /\ VolIdle /\ ZsIdle /\ BetaIdle /\ AggIdle /\ AccIdle /\ DetIdle /\ HstIdle
    /\ RefIdle

NextRsi == CallCalculateRsi \/ CallCalculateRsiHistory

SpecRsi == InitRsi /\ [][NextRsi]_vars

InitOpp == OppInit /\ RsiIdle /\ LifeIdle /\ DivIdle /\ DscIdle /\ SecIdle /\ RegIdle
    /\ VolIdle /\ ZsIdle /\ BetaIdle /\ AggIdle /\ AccIdle /\ DetIdle /\ HstIdle
    /\ RefIdle

NextOpp == CallCalculateOpportunityScore

SpecOpp == InitOpp /\ [][NextOpp]_vars

InitLife == LifeInit /\ RsiIdle /\ OppIdle /\ DivIdle /\ DscIdle /\ SecIdle /\ RegIdle
    /\ VolIdle /\ ZsIdle /\ BetaIdle /\ AggIdle /\ AccIdle /\ DetIdle /\ HstIdle
    /\ RefIdle

NextLife == CallClassifySignalLifecycle

SpecLife == InitLife /\ [][NextLife]_vars

InitDiv == DivInit /\ RsiIdle /\ OppIdle /\ LifeIdle /\ DscIdle /\ SecIdle /\ RegIdle
    /\ VolIdle /\ ZsIdle /\ BetaIdle /\ AggIdle /\ AccIdle /\ DetIdle /\ HstIdle
    /\ RefIdle

NextDiv == CallDetectDivergence

SpecDiv == InitDiv /\ [][NextDiv]_vars

InitDsc == DscInit /\ RsiIdle /\ OppIdle /\ LifeIdle /\ DivIdle /\ SecIdle /\ RegIdle
    /\ VolIdle /\ ZsIdle /\ BetaIdle /\ AggIdle /\ AccIdle /\ DetIdle /\ HstIdle
    /\ RefIdle

NextDsc == CallCalculateDivergenceScore

SpecDsc == InitDsc /\ [][NextDsc]_vars

InitSec == SecInit /\ RsiIdle /\ OppIdle /\ LifeIdle /\ DivIdle /\ DscIdle /\ RegIdle
    /\ VolIdle /\ ZsIdle /\ BetaIdle /\ AggIdle /\ AccIdle /\ DetIdle /\ HstIdle
    /\ RefIdle

NextSec == CallCalculateSectorRsi \/ CallCalculateSectorMomentum

SpecSec == InitSec /\ [][NextSec]_vars

InitReg == RegInit /\ RsiIdle /\ OppIdle /\ LifeIdle /\ DivIdle /\ DscIdle /\ SecIdle
    /\ VolIdle /\ ZsIdle /\ BetaIdle /\ AggIdle /\ AccIdle /\ DetIdle /\ HstIdle
    /\ RefIdle

NextReg == CallDetectRegime

SpecReg == InitReg /\ [][NextReg]_vars

InitVol == VolInit /\ RsiIdle /\ OppIdle /\ LifeIdle /\ DivIdle /\ DscIdle /\ SecIdle
    /\ RegIdle /\ ZsIdle /\ BetaIdle /\ AggIdle /\ AccIdle /\ DetIdle /\ HstIdle
    /\ RefIdle

NextVol == CallDetectVolatilityRegime

SpecVol == InitVol /\ [][NextVol]_vars

InitZs == ZsInit /\ RsiIdle /\ OppIdle /\ LifeIdle /\ DivIdle /\ DscIdle /\ SecIdle
    /\ RegIdle /\ VolIdle /\ BetaIdle /\ AggIdle /\ AccIdle /\ DetIdle /\ HstIdle
    /\ RefIdle

NextZs == CallCalculateZscore

SpecZs == InitZs /\ [][NextZs]_vars

InitBeta == BetaInit /\ RsiIdle /\ OppIdle /\ LifeIdle /\ DivIdle /\ DscIdle /\ SecIdle
    /\ RegIdle /\ VolIdle /\ ZsIdle /\ AggIdle /\ AccIdle /\ DetIdle /\ HstIdle
    /\ RefIdle

NextBeta == CallCalculateBetaAdjustedRsi

SpecBeta == InitBeta /\ [][NextBeta]_vars

InitAgg == AggInit /\ RsiIdle /\ OppIdle /\ LifeIdle /\ DivIdle /\ DscIdle /\ SecIdle
    /\ RegIdle /\ VolIdle /\ ZsIdle /\ BetaIdle /\ AccIdle /\ DetIdle /\ HstIdle
    /\ RefIdle

NextAgg == CallAggregateTo4hCloses \/ CallAggregateTo12hCloses \/ CallAggregateTo3dCloses

SpecAgg == InitAgg /\ [][NextAgg]_vars

InitAcc == AccInit /\ RsiIdle /\ OppIdle /\ LifeIdle /\ DivIdle /\ DscIdle /\ SecIdle
    /\ RegIdle /\ VolIdle /\ ZsIdle /\ BetaIdle /\ AggIdle /\ DetIdle /\ HstIdle
    /\ RefIdle

NextAcc == CallCalculateRsiAcceleration \/ CallCalculatePriceAcceleration \/ CallCalculateObvAcceleration

SpecAcc == InitAcc /\ [][NextAcc]_vars

InitDet == DetInit /\ RsiIdle /\ OppIdle /\ LifeIdle /\ DivIdle /\ DscIdle /\ SecIdle
    /\ RegIdle /\ VolIdle /\ ZsIdle /\ BetaIdle /\ AggIdle /\ AccIdle /\ HstIdle
    /\ RefIdle

NextDet == DetCalculateRsi \/ DetCalculateRsiHistory \/ DetDetectRegime \/ DetCalculateZscore \/ DetCalculateBetaAdjustedRsi \/ DetDetectVolatilityRegime \/ DetDetectDivergence \/ DetClassifySignalLifecycle \/ DetCalculateRsiAcceleration \/ DetCalculatePriceAcceleration \/ DetCalculateObvAcceleration

SpecDet == InitDet /\ [][NextDet]_vars

InitHst == HstInit /\ RsiIdle /\ OppIdle /\ LifeIdle /\ DivIdle /\ DscIdle /\ SecIdle
    /\ RegIdle /\ VolIdle /\ ZsIdle /\ BetaIdle /\ AggIdle /\ AccIdle /\ DetIdle
    /\ RefIdle

NextHst == HstCalculateRsi \/ HstCalculateRsiHistory \/ HstGetRsiHistory \/ HstMultiTfGetRsiHistory

SpecHst == InitHst /\ [][NextHst]_vars

InitRef == RefInit /\ RsiIdle /\ OppIdle /\ LifeIdle /\ DivIdle /\ DscIdle /\ SecIdle
    /\ RegIdle /\ VolIdle /\ ZsIdle /\ BetaIdle /\ AggIdle /\ AccIdle /\ DetIdle
    /\ HstIdle

NextRef == Tick \/ ClickRefresh \/ FetchMarketAndHistory \/ FetchHourly \/ ComputeBenchmarks \/ ComputeSectorMomentum \/ ProcessCoin \/ FinishRun \/ Commit \/ ShowError

SpecRef == InitRef /\ [][NextRef]_vars

----------------------------------------------------------------------------
(* Claims about the RSI engine *)

NoDecline(cs, upto) == \A j \in 1..(upto - 1) : cs[j + 1] >= cs[j]

RunningAvgLoss(k) == SmoothedAverage(Losses(Deltas(closes)), period, period + k - 1)

\* C1: with at least period+1 closes, calculate_rsi returns exactly 100
\* whenever the Wilder-smoothed average loss is 0 (in particular when no
\* close is lower than its predecessor), calculate_rsi_history holds exactly
\* 100 at every position whose running average loss is 0, and neither
\* call raises a ZeroDivisionError.
C1_SaturatesAt100 ==
    /\ rsi.kind # "raise"
    /\ rsi_history.kind # "raise"
    /\ (rsi.kind = "value") =>
          /\ RIsZero(RunningAvgLoss(Len(closes) - period)) => rsi.val = Num(100)
          /\ NoDecline(closes, Len(closes)) => rsi.val = Num(100)
    /\ (rsi_history.kind = "value") =>
          \A k \in 1..Len(rsi_history.vals) :
              /\ RIsZero(RunningAvgLoss(k)) => rsi_history.vals[k] = Num(100)
              /\ NoDecline(closes, period + k) => rsi_history.vals[k] = Num(100)

C1_Witness ==
    /\ rsi.kind = "value"
    /\ rsi.val = Num(100)
    /\ rsi_history.kind = "value"
    /\ Len(rsi_history.vals) >= 2
    /\ rsi_history.vals[Len(rsi_history.vals)] = Num(100)
    /\ \E j \in 1..(Len(closes) - 1) : closes[j + 1] = closes[j]

\* C2: for every closes list and period >= 1 the history has
\* max(0, len(closes) - period) values: none with fewer than period+1 closes,
\* otherwise one per close after the warm-up window.
C2_HistoryLength ==
    (rsi_history.kind # "pending") =>
        /\ rsi_history.kind = "value"
        /\ Len(rsi_history.vals) = Max(0, Len(closes) - period)
        /\ (Len(closes) < period + 1) <=> (rsi_history.vals = << >>)

C2_Witness ==
    /\ rsi_history.kind = "value"
    /\ Len(closes) >= period + 3
    /\ Len(rsi_history.vals) = 3

----------------------------------------------------------------------------
(* Claims about the opportunity composer *)

FlagSet == {FlagKeys[i] : i \in 1..Len(FlagKeys)}

AbsZ(f) ==
    LET z == Get(f, "zscore", Num(0))
    IN  IF z = Num(0) THEN Num(1) ELSE [n |-> Abs(z.n), d |-> z.d]

\* the bonus of each confluence factor, in tenths, as the claim lists them
BonusTenths(f, key) ==
    LET dv == Get(f, "divergence_score", 0)
    IN  CASE key = "divergence" ->
                 IF dv >= 4 THEN 5 ELSE IF dv \in 1..3 THEN 3 ELSE 0
          [] key = "sector_turning" -> IF Get(f, key, FALSE) THEN 1 ELSE 0
          [] OTHER -> IF Get(f, key, FALSE) THEN 2 ELSE 0

BonusKeys == FlagSet \cup {"divergence"}

RECURSIVE SumTenths(_, _)
SumTenths(f, keys) ==
    IF keys = {} THEN 0
    ELSE LET k == CHOOSE x \in keys : TRUE
         IN  BonusTenths(f, k) + SumTenths(f, keys \ {k})

FreshTenths(days) ==
    CASE days <= 2 -> 10
      [] days \in 3..6 -> 8
      [] days \in 7..10 -> 6
      [] days \in 11..13 -> 4
      [] days > 13 -> 3

\* everything C3 states except the value of base_score
C3_Multipliers(f, s) ==
    LET fresh == Rat(FreshTenths(Get(f, "days_in_zone", 0)), 10)
        conf  == Rat(10 + SumTenths(f, BonusKeys), 10)
    IN  /\ s.freshness_multiplier = fresh
        /\ DOMAIN s.factors = {k \in BonusKeys : BonusTenths(f, k) > 0}
        /\ \A k \in DOMAIN s.factors : s.factors[k] = Rat(BonusTenths(f, k), 10)
        /\ s.confluence_multiplier = conf
        /\ ~RLess(conf, Num(1)) /\ ~RLess(Rat(24, 10), conf)
        /\ s.final_score = Round(RMul(RMul(AbsZ(f), fresh), conf), 4)

\* C3 as stated: base_score is |zscore| for a nonzero zscore and 1.0
\* otherwise, the freshness multiplier follows the day bands, the confluence
\* multiplier is 1.0 plus the bonuses of the true factors (which are exactly
\* the returned breakdown) and lies in [1.0, 2.4], and final_score is the
\* product rounded to 4 decimals.
C3_AsStated ==
    (score.kind = "value") =>
        /\ score.base_score = AbsZ(factors)
        /\ C3_Multipliers(factors, score)

\* C3 (amended): as C3, with base_score = |zscore| rounded to 4 decimals
\* (the product in final_score uses the unrounded |zscore|).
C3_ScoreComposition ==
    (score.kind = "value") =>
        /\ score.base_score = Round(AbsZ(factors), 4)
        /\ C3_Multipliers(factors, score)

C3_Witness ==
    /\ score.kind = "value"
    /\ "zscore" \in DOMAIN factors
    /\ factors["zscore"] = Rat(-23456, 10000)
    /\ Get(factors, "days_in_zone", 0) = 7
    /\ score.confluence_multiplier = Rat(24, 10)
    /\ score.final_score = Rat(33777, 10000)

DecayBoundaries == {2, 6, 10, 13}

CrossesBoundary(d1, d2) == \E b \in DecayBoundaries : d1 <= b /\ b < d2

WithDays(f, d) == [k \in (DOMAIN f) \cup {"days_in_zone"} |->
                      IF k = "days_in_zone" THEN d ELSE f[k]]

\* C4 as stated: with zscore and the confluence factors fixed, raising
\* days_in_zone across a decay boundary (2, 6, 10, 13) strictly decreases
\* final_score.
C4_AsStated ==
    (score.kind = "value") =>
        \A d2 \in 0..(MaxDays + 1) :
            CrossesBoundary(Get(factors, "days_in_zone", 0), d2) =>
                RLess(calculate_opportunity_score(WithDays(factors, d2)).final_score,
                      score.final_score)

\* C4 (amended): raising days_in_zone across a decay boundary never
\* increases final_score, and strictly decreases it when zscore is 0 or
\* missing or |zscore| >= 0.001.
C4_FreshnessDecay ==
    (score.kind = "value") =>
        \A d2 \in 0..(MaxDays + 1) :
            CrossesBoundary(Get(factors, "days_in_zone", 0), d2) =>
                LET later == calculate_opportunity_score(WithDays(factors, d2)).final_score
                IN  /\ ~RLess(score.final_score, later)
                    /\ ~RLess(AbsZ(factors), Rat(1, 1000)) => RLess(later, score.final_score)

C4_Witness ==
    /\ score.kind = "value"
    /\ Get(factors, "days_in_zone", 0) = 13
    /\ Get(factors, "zscore", Num(0)) = Rat(1, 1000)
    /\ score.final_score = Rat(4, 10000)
    /\ calculate_opportunity_score(WithDays(factors, 14)).final_score = Rat(3, 10000)

TrueFactors(f) == {k \in BonusKeys : BonusTenths(f, k) > 0}

\* the inputs that agree with f on zscore and days_in_zone
SameBaseAndAge(f) ==
    { [k \in (DOMAIN f) \cup FlagSet \cup {"divergence_score"} |->
          IF k = "divergence_score" THEN dv
          ELSE IF k \in FlagSet THEN b[k] ELSE f[k]] :
        dv \in DivergenceScores, b \in [FlagSet -> BOOLEAN] }

\* C5 as stated: of two inputs with the same zscore and days_in_zone, the
\* one with more true confluence factors never has the smaller final_score.
C5_AsStated ==
    (score.kind = "value") =>
        \A g \in SameBaseAndAge(factors) :
            Cardinality(TrueFactors(g)) > Cardinality(TrueFactors(factors)) =>
                ~RLess(calculate_opportunity_score(g).final_score, score.final_score)

\* C5 (amended): of two inputs with the same zscore and days_in_zone, if
\* every factor true in the first is true in the second and the second's
\* divergence_score is not lower, the second's final_score is not smaller.
C5_ConfluenceMonotone ==
    (score.kind = "value") =>
        \A g \in SameBaseAndAge(factors) :
            (/\ \A k \in FlagSet : Get(factors, k, FALSE) => g[k]
             /\ g["divergence_score"] >= Get(factors, "divergence_score", 0)) =>
                ~RLess(calculate_opportunity_score(g).final_score, score.final_score)

C5_Witness ==
    /\ score.kind = "value"
    /\ TrueFactors(factors) = {"sector_turning"}
    /\ Get(factors, "zscore", Num(0)) = Rat(1, 1000)
    /\ Get(factors, "days_in_zone", 0) = 0
    /\ score.final_score = Rat(11, 10000)
    /\ \E g \in SameBaseAndAge(factors) :
          /\ TrueFactors(g) = {"sector_turning", "divergence"}
          /\ calculate_opportunity_score(g).final_score = Rat(16, 10000)

----------------------------------------------------------------------------
(* Claims about the signal lifecycle *)

InZone(i) ==
    IF is_oversold THEN lc_rsi_history[i] < extreme_threshold
    ELSE lc_rsi_history[i] > extreme_threshold

\* the length of the longest suffix of the history that lies in the zone
ExtremeSuffix ==
    LET n == Len(lc_rsi_history)
    IN  CHOOSE d \in 0..n :
            /\ \A i \in (n - d + 1)..n : InZone(i)
            /\ d = n \/ ~InZone(n - d)

\* just left the zone and moving back toward 50
JustExitedTowardMidpoint ==
    LET n == Len(lc_rsi_history)
    IN  /\ ~InZone(n)
        /\ InZone(n - 1) \/ InZone(n - 2)
        /\ IF is_oversold THEN lc_rsi_history[n] > lc_rsi_history[n - 1]
           ELSE lc_rsi_history[n] < lc_rsi_history[n - 1]

\* C6: for a history of at least 5 values days_in_zone is the length of the
\* longest suffix whose values all satisfy the strict extremity predicate,
\* and unless the resolving override applies the state is none for 0,
\* fresh for 1-2, confirmed for 3-5, extended for 6 or more;
\* [35,32,28,25,22] with threshold 30 oversold gives 3 and confirmed.
C6_DaysInZone ==
    (lifecycle.kind = "value") =>
        /\ Len(lc_rsi_history) >= 5
        /\ lifecycle.days_in_zone = ExtremeSuffix
        /\ ~JustExitedTowardMidpoint =>
              lifecycle.state = (CASE ExtremeSuffix = 0 -> "none"
                                   [] ExtremeSuffix \in 1..2 -> "fresh"
                                   [] ExtremeSuffix \in 3..5 -> "confirmed"
                                   [] ExtremeSuffix >= 6 -> "extended")
        /\ (lc_rsi_history = <<35, 32, 28, 25, 22>> /\ is_oversold) =>
              (lifecycle.days_in_zone = 3 /\ lifecycle.state = "confirmed")

C6_Witness ==
    /\ lifecycle.kind = "value"
    /\ lc_rsi_history = <<35, 32, 28, 25, 22>>
    /\ is_oversold
    /\ extreme_threshold = 30
    /\ lifecycle.days_in_zone = 3
    /\ lifecycle.state = "confirmed"

\* C7: the state is resolving exactly when the current value is not
\* extreme, one of the two preceding values is, and the current value is
\* strictly above (oversold) or below (overbought) the preceding one;
\* resolving and none have days_in_zone 0, and days_in_zone > 0 means
\* fresh, confirmed or extended.
C7_Resolving ==
    (lifecycle.kind = "value") =>
        /\ (lifecycle.state = "resolving") <=> JustExitedTowardMidpoint
        /\ lifecycle.state \in {"resolving", "none"} => lifecycle.days_in_zone = 0
        /\ lifecycle.days_in_zone > 0 =>
              lifecycle.state \in {"fresh", "confirmed", "extended"}

C7_Witness ==
    /\ lifecycle.kind = "value"
    /\ lifecycle.state = "resolving"
    /\ ~is_oversold
    /\ ~InZone(Len(lc_rsi_history) - 1)
    /\ InZone(Len(lc_rsi_history) - 2)
    /\ lifecycle.days_in_zone = 0

----------------------------------------------------------------------------
(* Claims about the divergence detector *)

Window(xs) == [i \in 1..lookback |-> xs[Len(xs) - lookback + i]]

\* the 3-point and endpoint tests for a local low / high of the price window
IsLocalLow(v, i) ==
    LET n == Len(v)
    IN  \/ 1 < i /\ i < n /\ v[i] < v[i - 1] /\ v[i] <= v[i + 1]
        \/ i = 1 /\ n >= 2 /\ v[1] < v[2]
        \/ i = n /\ n >= 2 /\ v[n] < v[n - 1]

IsLocalHigh(v, i) ==
    LET n == Len(v)
    IN  \/ 1 < i /\ i < n /\ v[i] > v[i - 1] /\ v[i] >= v[i + 1]
        \/ i = 1 /\ n >= 2 /\ v[1] > v[2]
        \/ i = n /\ n >= 2 /\ v[n] > v[n - 1]

SetMin(S) == CHOOSE x \in S : \A y \in S : x <= y

SetMax(S) == CHOOSE x \in S : \A y \in S : x >= y

Lows == {i \in 1..lookback : IsLocalLow(Window(price_history), i)}

Highs == {i \in 1..lookback : IsLocalHigh(Window(price_history), i)}

\* RSI at the last low minus RSI at the first low
LowGap == Window(dv_rsi_history)[SetMax(Lows)] - Window(dv_rsi_history)[SetMin(Lows)]

\* RSI at the first high minus RSI at the last high
HighGap == Window(dv_rsi_history)[SetMin(Highs)] - Window(dv_rsi_history)[SetMax(Highs)]

BullishPattern ==
    /\ Cardinality(Lows) >= 2
    /\ Window(price_history)[SetMax(Lows)] < Window(price_history)[SetMin(Lows)]
    /\ LowGap > 0

BearishPattern ==
    /\ Cardinality(Highs) >= 2
    /\ Window(price_history)[SetMax(Highs)] > Window(price_history)[SetMin(Highs)]
    /\ HighGap > 0

\* C8: bullish whenever the bullish pattern holds on the trailing window,
\* also when the bearish pattern holds too; bearish only when the bullish
\* pattern fails and the bearish one holds; none in every other case.
C8_BullishFirst ==
    (dv_divergence.kind = "value") =>
        dv_divergence.type = (IF BullishPattern THEN "bullish"
                              ELSE IF BearishPattern THEN "bearish"
                              ELSE "none")

C8_Witness ==
    /\ dv_divergence.kind = "value"
    /\ BullishPattern
    /\ BearishPattern
    /\ dv_divergence.type = "bullish"

StrictlyMonotonic(v) ==
    \/ \A i \in 1..(Len(v) - 1) : v[i] < v[i + 1]
    \/ \A i \in 1..(Len(v) - 1) : v[i] > v[i + 1]

\* C9: when the trailing price window is strictly increasing or strictly
\* decreasing the result is type none with strength 0, whatever the RSI.
C9_MonotonicNone ==
    (dv_divergence.kind = "value" /\ StrictlyMonotonic(Window(price_history))) =>
        (dv_divergence.type = "none" /\ dv_divergence.strength = 0)

C9_Witness ==
    /\ dv_divergence.kind = "value"
    /\ lookback = MaxWindow
    /\ \A i \in 1..(MaxWindow - 1) : price_history[i] < price_history[i + 1]
    /\ dv_rsi_history[MaxWindow] < dv_rsi_history[1]
    /\ dv_divergence.type = "none"

\* C10: strength is 0 exactly when type is none; a bullish or bearish
\* result has strength 2 exactly when the RSI gap between the two compared
\* extrema is >= 5 (5 itself included) and 1 when the gap is below 5.
C10_Strength ==
    (dv_divergence.kind = "value") =>
        /\ (dv_divergence.strength = 0) <=> (dv_divergence.type = "none")
        /\ dv_divergence.type = "bullish" =>
              /\ LowGap > 0
              /\ dv_divergence.strength = (IF LowGap >= 5 THEN 2 ELSE 1)
        /\ dv_divergence.type = "bearish" =>
              /\ HighGap > 0
              /\ dv_divergence.strength = (IF HighGap >= 5 THEN 2 ELSE 1)

C10_Witness ==
    /\ dv_divergence.kind = "value"
    /\ dv_divergence.type = "bearish"
    /\ HighGap = 5
    /\ dv_divergence.strength = 2

----------------------------------------------------------------------------
(* Claims about calculate_divergence_score *)

\* the timeframe's divergence is present with a type other than none
ShowsDivergence(d) == d # PyNone /\ d["type"] # "none"

StrengthOf(d) == IF "strength" \in DOMAIN d THEN d["strength"] ELSE 1

\* C11: calculate_divergence_score returns 4 exactly when both the daily and
\* the weekly divergence are present with a type other than none, whatever
\* their strengths; otherwise the strength of the one timeframe that shows a
\* divergence; otherwise 0, also when an input is None.  The result is
\* always one of 0, 1, 2, 4.
C11_DivergenceScore ==
    divergence_score.kind = "value" =>
        LET d == ShowsDivergence(daily_divergence)
            w == ShowsDivergence(weekly_divergence)
            v == divergence_score.val
        IN  /\ (v = 4) <=> (d /\ w)
            /\ (d /\ ~w) => v = StrengthOf(daily_divergence)
            /\ (~d /\ w) => v = StrengthOf(weekly_divergence)
            /\ (~d /\ ~w) => v = 0
            /\ v \in {0, 1, 2, 4}

\* both timeframes diverge, one weakly and one strongly, and the score is 4
C11_Witness ==
    /\ divergence_score.kind = "value"
    /\ ShowsDivergence(daily_divergence)
    /\ ShowsDivergence(weekly_divergence)
    /\ Get(daily_divergence, "strength", 0) = 1
    /\ Get(weekly_divergence, "strength", 0) = 2
    /\ divergence_score.val = 4

----------------------------------------------------------------------------
(* Claims about calculate_sector_rsi and calculate_sector_momentum *)

CapOf(c) == IF "market_cap" \in DOMAIN c THEN c["market_cap"] ELSE 0

SumOver(cs, F(_)) == SumSeq([i \in 1..Len(cs) |-> F(cs[i])], 1, Len(cs))

RsiTimesCap(c) == c["daily_rsi"] * CapOf(c)

DailyRsiOf(c) == c["daily_rsi"]

SomeCapMissingOrZero(cs) == \E i \in 1..Len(cs) : CapOf(cs[i]) = 0

\* the sector RSI as the claim states it, before the rounding to 2 decimals
StatedSectorRsi(cs) ==
    IF SomeCapMissingOrZero(cs) \/ SumOver(cs, CapOf) = 0
    THEN Rat(SumOver(cs, DailyRsiOf), Len(cs))
    ELSE Rat(SumOver(cs, RsiTimesCap), SumOver(cs, CapOf))

\* C12: for every sector, calculate_sector_rsi and calculate_sector_momentum
\* compute the current sector RSI as the unweighted mean of the members'
\* daily RSI when any member has a missing or zero market cap or the total
\* cap is 0, and as the market-cap-weighted mean otherwise (the records carry
\* it rounded to 2 decimals); no input with at least one member raises a
\* division by zero.
C12_SectorRsiMean ==
    /\ sector_rsi.kind # "raise"
    /\ sector_momentum.kind # "raise"
    /\ sector_rsi.kind = "value" =>
          \A s \in DOMAIN sector_rsi.sectors :
              sector_rsi.sectors[s].rsi
                  = Round(StatedSectorRsi(SectorCoins(coins, s)), 2)
    /\ sector_momentum.kind = "value" =>
          \A s \in DOMAIN sector_momentum.sectors :
              sector_momentum.sectors[s].current_rsi
                  = Round(StatedSectorRsi(SectorCoins(coins, s)), 2)

\* two members of one sector with caps 0 and 1000 and daily RSI 40 each give 40
C12_Witness ==
    /\ sector_rsi.kind = "value"
    /\ sector_momentum.kind = "value"
    /\ Len(SectorCoins(coins, "L1")) = 2
    /\ CapOf(coins[1]) = 0 /\ "market_cap" \in DOMAIN coins[1]
    /\ CapOf(coins[2]) = 1000
    /\ coins[1]["daily_rsi"] = 40 /\ coins[2]["daily_rsi"] = 40
    /\ sector_rsi.sectors["L1"].rsi = Num(40)
    /\ sector_momentum.sectors["L1"].current_rsi = Num(40)

\* the members that carry at least 7 RSI-history values
MembersWith7(cs) == SelectSeq(cs, LAMBDA c : Len(c["rsi_history"]) >= 7)

\* the value exactly 7 periods before the most recent history value
SevenPeriodsBack(c) == c["rsi_history"][Len(c["rsi_history"]) - 7]

HistTimesCap(c) == SevenPeriodsBack(c) * CapOf(c)

StatedRsi7dAgo(cs) ==
    IF SomeCapMissingOrZero(cs) \/ SumOver(cs, CapOf) = 0
    THEN Rat(SumOver(cs, SevenPeriodsBack), Len(cs))
    ELSE Rat(SumOver(cs, HistTimesCap), SumOver(cs, CapOf))

\* C13: in calculate_sector_momentum, rsi_7d_ago of a sector is the (weighted
\* or simple) mean, over the members that carry at least 7 RSI-history
\* values, of each member's RSI value exactly 7 periods before its most
\* recent history value; members with shorter history are left out of
\* rsi_7d_ago but still count in current_rsi; rsi_7d_ago and change_7d are
\* undefined when no member has 7 values.  (Stated for the sectors whose
\* members with 7 values all have a value 7 periods before the latest.)
C13_AsStated ==
    sector_momentum.kind = "value" =>
        \A s \in DOMAIN sector_momentum.sectors :
            LET cs  == SectorCoins(coins, s)
                m7  == MembersWith7(cs)
                rec == sector_momentum.sectors[s]
            IN  /\ Len(m7) = 0 => rec.rsi_7d_ago = << >> /\ rec.change_7d = << >>
                /\ rec.current_rsi = Round(StatedSectorRsi(cs), 2)
                /\ (/\ Len(m7) > 0
                    /\ \A i \in 1..Len(m7) : Len(m7[i]["rsi_history"]) > 7)
                   => rec.rsi_7d_ago = <<Round(StatedRsi7dAgo(m7), 2)>>

\* the value the code compares with: the 7th most recent history value
SeventhFromEnd(c) == c["rsi_history"][Len(c["rsi_history"]) - 6]

SeventhTimesCap(c) == SeventhFromEnd(c) * CapOf(c)

ComparedRsi7dAgo(cs) ==
    IF SomeCapMissingOrZero(cs) \/ SumOver(cs, CapOf) = 0
    THEN Rat(SumOver(cs, SeventhFromEnd), Len(cs))
    ELSE Rat(SumOver(cs, SeventhTimesCap), SumOver(cs, CapOf))

\* current RSI minus the compared earlier RSI, both before rounding
UnroundedChange(cs) == RSub(StatedSectorRsi(cs), ComparedRsi7dAgo(MembersWith7(cs)))

\* C14: for every sector returned by calculate_sector_momentum,
\* is_rotation_signal is true exactly when the sector's current RSI is below
\* 35 and change_7d is defined and greater than 0 (both as computed, before
\* the rounding of the record's fields); it is false whenever no member has
\* enough history for the comparison.
C14_RotationSignal ==
    sector_momentum.kind = "value" =>
        \A s \in DOMAIN sector_momentum.sectors :
            LET cs  == SectorCoins(coins, s)
                rec == sector_momentum.sectors[s]
            IN  /\ rec.is_rotation_signal
                     <=> /\ RLess(StatedSectorRsi(cs), Num(35))
                         /\ Len(MembersWith7(cs)) > 0
                         /\ RLess(Num(0), UnroundedChange(cs))
                /\ (rec.change_7d # << >>) <=> (Len(MembersWith7(cs)) > 0)
                /\ Len(MembersWith7(cs)) = 0 => ~rec.is_rotation_signal

\* a rotation signal while the momentum is flat: 0 < change_7d <= 3
C14_Witness ==
    /\ sector_momentum.kind = "value"
    /\ \E s \in DOMAIN sector_momentum.sectors :
          LET rec == sector_momentum.sectors[s]
          IN  /\ rec.is_rotation_signal
              /\ rec.momentum = "flat"
              /\ rec.change_7d # << >>
              /\ RLess(Num(0), rec.change_7d[1])
              /\ ~RLess(Num(3), rec.change_7d[1])

----------------------------------------------------------------------------
(* Claims about detect_regime *)

\* the last 4 values of the weekly history, oldest first
Last4 == [i \in 1..4 |-> btc_weekly_rsi_history[Len(btc_weekly_rsi_history) - 4 + i]]

Above50(x) == x > 50

\* C15: for every weekly RSI history of at least 4 values, detect_regime
\* returns state transition exactly when some adjacent pair among the last 4
\* values lies on opposite sides of 50, otherwise bull if the latest value is
\* above 50 and bear otherwise, so bull implies all of the last 4 values are
\* above 50 and bear implies all are at most 50; momentum is rising if latest
\* minus the value 3 periods back exceeds 3, falling if it is below -3, else
\* neutral; combined is "transition" exactly when state is transition and
\* "{state}_{momentum}" otherwise.
C15_Regime ==
    (regime.kind # "pending" /\ Len(btc_weekly_rsi_history) >= 4) =>
        LET opposite == \E i \in 1..3 : Above50(Last4[i]) # Above50(Last4[i + 1])
            delta    == Last4[4] - Last4[1]
        IN  /\ regime.kind = "value"
            /\ (regime.state = "transition") <=> opposite
            /\ ~opposite => regime.state = (IF Last4[4] > 50 THEN "bull" ELSE "bear")
            /\ regime.state = "bull" => \A i \in 1..4 : Last4[i] > 50
            /\ regime.state = "bear" => \A i \in 1..4 : Last4[i] <= 50
            /\ regime.momentum = (IF delta > 3 THEN "rising"
                                  ELSE IF delta < -3 THEN "falling" ELSE "neutral")
            /\ (regime.combined = "transition") <=> (regime.state = "transition")
            /\ regime.state = "bull" =>
                  regime.combined \in {"bull_rising", "bull_falling", "bull_neutral"}
            /\ regime.state = "bear" =>
                  regime.combined \in {"bear_rising", "bear_falling", "bear_neutral"}
            /\ regime.state # "transition" =>
                  \/ regime.momentum = "rising" /\ regime.combined \in {"bull_rising", "bear_rising"}
                  \/ regime.momentum = "falling" /\ regime.combined \in {"bull_falling", "bear_falling"}
                  \/ regime.momentum = "neutral" /\ regime.combined \in {"bull_neutral", "bear_neutral"}

\* a transition whose only crossing is between the first two of the last 4
\* values, in a longer history
C15_Witness ==
    /\ regime.kind = "value"
    /\ Len(btc_weekly_rsi_history) > 4
    /\ Above50(Last4[1]) # Above50(Last4[2])
    /\ Above50(Last4[2]) = Above50(Last4[3])
    /\ Above50(Last4[3]) = Above50(Last4[4])
    /\ regime.state = "transition"
    /\ regime.combined = "transition"

----------------------------------------------------------------------------
(* Claims about detect_volatility_regime *)

\* the normalized ATR at the k-th of the last 4*period price positions, over
\* the period true ranges that end there
AtrAtPosition(k) ==
    LET n    == Len(vol_price_history)
        pos  == n - 4 * vol_period + k
        span == [j \in 1..vol_period |->
                    Abs(vol_price_history[pos - vol_period + j]
                        - vol_price_history[pos - vol_period + j - 1])]
    IN  Rat(100 * SumSeq(span, 1, vol_period), vol_period * vol_price_history[pos])

\* every one of the last 4*period positions has period true ranges before it
FullSlices == Len(vol_price_history) >= 5 * vol_period

\* C16: whenever detect_volatility_regime returns a record (any input of at
\* least 4*period+1 prices, including exactly 4*period+1), avg_atr is the
\* mean of exactly 4*period normalized ATR values, one for each of the last
\* 4*period price positions (so the ratio history, the last 14 of them, has
\* min(14, 4*period) entries), each over a full period-sized slice of true
\* ranges and normalized by the price at that position; the regime is
\* compressed if current/average < 0.7, expanded if > 1.3, else normal.
C16_AsStated ==
    (volatility.kind # "pending" /\ Len(vol_price_history) >= 4 * vol_period + 1) =>
        /\ volatility.kind = "value"
        /\ Len(volatility.volatility_history) = Min(14, 4 * vol_period)
        /\ FullSlices =>
              LET average == RDiv(RSumSeq([k \in 1..(4 * vol_period) |-> AtrAtPosition(k)],
                                          4 * vol_period),
                                  Num(4 * vol_period))
                  current == AtrAtPosition(4 * vol_period)
              IN  /\ volatility.avg_atr = Round(average, 4)
                  /\ RLess(Num(0), average) =>
                        volatility.regime
                            = (IF RLess(RMul(Num(10), current), RMul(Num(7), average))
                               THEN "compressed"
                               ELSE IF RLess(RMul(Num(13), average), RMul(Num(10), current))
                               THEN "expanded" ELSE "normal")

----------------------------------------------------------------------------
(* Claims about calculate_zscore *)

\* the trailing min(lookback, len) values
TrailingWindow == LastN(zs_values, Min(zs_lookback, Len(zs_values)))

WindowSum == SumSeq(TrailingWindow, 1, Len(TrailingWindow))

WindowSumOfSquares ==
    SumSeq([i \in 1..Len(TrailingWindow) |-> TrailingWindow[i] * TrailingWindow[i]],
           1, Len(TrailingWindow))

\* n * current - sum: the sign of current - mean
ScaledDeviation == Len(TrailingWindow) * zs_values[Len(zs_values)] - WindowSum

\* n * n * variance
ScaledVariance == Len(TrailingWindow) * WindowSumOfSquares - WindowSum * WindowSum

\* |zscore| > 2, squared and scaled by n * n * variance
BeyondTwoSigma == ScaledDeviation * ScaledDeviation > 4 * ScaledVariance

WindowIsConstant == \A i \in 1..Len(TrailingWindow) : TrailingWindow[i] = TrailingWindow[1]

\* C17: for every value list of at least 10 entries, calculate_zscore uses
\* the population mean and standard deviation of the trailing
\* min(lookback, len) values; when all values in that window are equal it
\* returns zscore 0.0 and extreme normal instead of dividing by zero;
\* otherwise extreme is oversold exactly when zscore < -2.0, overbought
\* exactly when zscore > 2.0, and normal in between, boundaries included.
C17_AsStated ==
    (zscore_info.kind # "pending" /\ Len(zs_values) >= 10) =>
        /\ zscore_info.kind = "value"
        /\ zscore_info.mean = Round(Rat(WindowSum, Len(TrailingWindow)), 4)
        /\ zscore_info.variance
              = Rat(ScaledVariance, Len(TrailingWindow) * Len(TrailingWindow))
        /\ WindowIsConstant =>
              /\ zscore_info.zscore_sign = 0
              /\ zscore_info.zscore_sq = Num(0)
              /\ zscore_info.extreme = "normal"
        /\ ~WindowIsConstant =>
              /\ (zscore_info.extreme = "oversold")
                    <=> (ScaledDeviation < 0 /\ BeyondTwoSigma)
              /\ (zscore_info.extreme = "overbought")
                    <=> (ScaledDeviation > 0 /\ BeyondTwoSigma)
              /\ zscore_info.extreme \in {"oversold", "overbought", "normal"}

----------------------------------------------------------------------------
(* Claims about calculate_beta_adjusted_rsi *)

SumOfProducts(xs, ys) == SumSeq([i \in 1..Len(xs) |-> xs[i] * ys[i]], 1, Len(xs))

SumOf(xs) == SumSeq(xs, 1, Len(xs))

\* n * n * population covariance of the two return series
ScaledCovariance ==
    Len(coin_returns) * SumOfProducts(coin_returns, btc_returns)
        - SumOf(coin_returns) * SumOf(btc_returns)

\* n * n * population variance of the benchmark returns
ScaledBenchmarkVariance ==
    Len(btc_returns) * SumOfProducts(btc_returns, btc_returns)
        - SumOf(btc_returns) * SumOf(btc_returns)

StatedBeta ==
    IF ScaledBenchmarkVariance = 0 THEN Num(1)
    ELSE Rat(ScaledCovariance, ScaledBenchmarkVariance)

StatedExpectedRsi == RAdd(Num(50), RMul(StatedBeta, Num(btc_rsi - 50)))

StatedResidual == RSub(Num(coin_rsi), StatedExpectedRsi)

----------------------------------------------------------------------------
(* Claims about the fixed-width price aggregations *)

\* floor(timestamp / bucket_width_ms) for the non-negative timestamps drawn
KeyOf(i, width) == price_points[i][1] \div width

PointsIn(key, width) == {i \in 1..Len(price_points) : KeyOf(i, width) = key}

KeysPresent(width) == {KeyOf(i, width) : i \in 1..Len(price_points)}

\* one value per bucket key present, in ascending bucket order, chosen by Pick
OnePerBucket(result, width, Pick(_, _)) ==
    /\ result.kind = "value"
    /\ Len(result.vals) = Cardinality(KeysPresent(width))
    /\ \A key \in KeysPresent(width) :
          LET rank == Cardinality({k \in KeysPresent(width) : k <= key})
          IN  Pick(result.vals[rank], PointsIn(key, width))

\* the value of a point of the bucket with the greatest timestamp
IsChronologicallyLast(value, bucket) ==
    \E i \in bucket :
        /\ \A j \in bucket : price_points[j][1] <= price_points[i][1]
        /\ value = price_points[i][2]

\* the value of the point of the bucket that comes last in the list
IsLastInList(value, bucket) ==
    \E i \in bucket : (\A j \in bucket : j <= i) /\ value = price_points[i][2]

AscendingByTimestamp ==
    \A i \in 1..(Len(price_points) - 1) : price_points[i][1] <= price_points[i + 1][1]

\* C19 as stated: for every list of (timestamp, price) points, each of the
\* three aggregations returns exactly one value per distinct bucket key
\* floor(timestamp / bucket_width_ms) present in the input, in ascending
\* bucket order, each being the value of the chronologically-last point
\* (greatest timestamp) of the bucket; empty input gives empty output.
C19_AsStated ==
    /\ closes_4h.kind # "pending" =>
          OnePerBucket(closes_4h, 4 * HourMs, IsChronologicallyLast)
    /\ closes_12h.kind # "pending" =>
          OnePerBucket(closes_12h, 12 * HourMs, IsChronologicallyLast)
    /\ closes_3d.kind # "pending" =>
          OnePerBucket(closes_3d, 72 * HourMs, IsChronologicallyLast)

\* C19 amended: one value per bucket key present, in ascending bucket order,
\* each being the value of the point of the bucket that comes last in the
\* list; that is the chronologically-last point whenever the list is in
\* ascending timestamp order.  Empty input gives empty output.
C19_LastInListWins ==
    /\ closes_4h.kind # "pending" =>
          /\ OnePerBucket(closes_4h, 4 * HourMs, IsLastInList)
          /\ AscendingByTimestamp =>
                OnePerBucket(closes_4h, 4 * HourMs, IsChronologicallyLast)
    /\ closes_12h.kind # "pending" =>
          /\ OnePerBucket(closes_12h, 12 * HourMs, IsLastInList)
          /\ AscendingByTimestamp =>
                OnePerBucket(closes_12h, 12 * HourMs, IsChronologicallyLast)
    /\ closes_3d.kind # "pending" =>
          /\ OnePerBucket(closes_3d, 72 * HourMs, IsLastInList)
          /\ AscendingByTimestamp =>
                OnePerBucket(closes_3d, 72 * HourMs, IsChronologicallyLast)
    /\ price_points = << >> =>
          /\ closes_4h.vals = << >>
          /\ closes_12h.vals = << >>
          /\ closes_3d.vals = << >>

\* three ascending points, two of them with different prices in the first 4h
\* bucket and one in a later bucket, aggregated by all three functions
C19_Witness ==
    /\ closes_4h.kind = "value" /\ closes_12h.kind = "value" /\ closes_3d.kind = "value"
    /\ Len(price_points) = 3
    /\ AscendingByTimestamp
    /\ KeyOf(1, 4 * HourMs) = KeyOf(2, 4 * HourMs)
    /\ price_points[1][1] < price_points[2][1]
    /\ price_points[1][2] # price_points[2][2]
    /\ KeyOf(3, 12 * HourMs) > KeyOf(2, 12 * HourMs)
    /\ closes_4h.vals = <<price_points[2][2], price_points[3][2]>>
    /\ Len(closes_3d.vals) = 1

----------------------------------------------------------------------------
(* Claims about the acceleration functions *)

\* v[-k] of the series
V(k) == acc_series[Len(acc_series) - k + 1]

Velocity == V(1) - V(2)

PriorVelocity == V(2) - V(3)

\* the range of the trailing <= 10 values
TrailingRange ==
    LET n    == Len(acc_series)
        tail == {acc_series[i] : i \in (IF n > 10 THEN n - 9 ELSE 1)..n}
    IN  (CHOOSE hi \in tail : \A v \in tail : v <= hi)
            - (CHOOSE lo \in tail : \A v \in tail : lo <= v)

\* what the claim says of the RSI and the OBV variant, the normalized OBV
\* fields compared through Shown
RsiAndObvAsStated(Shown(_)) ==
    /\ rsi_acceleration.kind # "pending" =>
          /\ rsi_acceleration.kind = "value"
          /\ rsi_acceleration.velocity = Velocity
          /\ rsi_acceleration.acceleration = Velocity - PriorVelocity
    /\ obv_acceleration.kind # "pending" =>
          /\ obv_acceleration.kind = "value"
          /\ obv_acceleration.raw_velocity = Velocity
          /\ obv_acceleration.raw_acceleration = Velocity - PriorVelocity
          /\ TrailingRange > 0 =>
                /\ obv_acceleration.velocity
                      = Shown(Rat(100 * Velocity, TrailingRange))
                /\ obv_acceleration.acceleration
                      = Shown(Rat(100 * (Velocity - PriorVelocity), TrailingRange))

Unrounded(x) == x

Rounded4(x) == Round(x, 4)

\* C20 as stated: for each of calculate_rsi_acceleration,
\* calculate_price_acceleration and calculate_obv_acceleration applied to a
\* series v of at least 3 values, the velocity is v[-1] - v[-2], the prior
\* velocity is v[-2] - v[-3] and the acceleration is velocity minus prior
\* velocity (for the OBV variant these are raw_velocity and raw_acceleration,
\* velocity and acceleration being the same quantities divided by the range
\* of the trailing <= 10 values, times 100).
C20_AsStated ==
    Len(acc_series) >= 3 =>
        /\ RsiAndObvAsStated(Unrounded)
        /\ price_acceleration.kind # "pending" =>
              /\ price_acceleration.kind = "value"
              /\ price_acceleration.velocity = Num(Velocity)
              /\ price_acceleration.acceleration = Num(Velocity - PriorVelocity)

\* C20 amended: the RSI and the OBV variant are as stated, the normalized OBV
\* fields rounded to 4 decimals and 0.0 when the range is 0; for
\* calculate_price_acceleration the velocity is the percent change
\* (v[-1] - v[-2]) / v[-2] * 100, the prior velocity (v[-2] - v[-3]) / v[-3]
\* * 100 and the acceleration their difference, rounded to 4 decimals, and
\* the result is None when v[-2] or v[-3] is 0.
C20_Acceleration ==
    Len(acc_series) >= 3 =>
        /\ RsiAndObvAsStated(Rounded4)
        /\ (obv_acceleration.kind # "pending" /\ TrailingRange = 0) =>
              /\ obv_acceleration.velocity = Num(0)
              /\ obv_acceleration.acceleration = Num(0)
        /\ price_acceleration.kind # "pending" =>
              IF V(2) = 0 \/ V(3) = 0 THEN price_acceleration.kind = "None"
              ELSE /\ price_acceleration.kind = "value"
                   /\ price_acceleration.velocity
                         = Round(Rat(100 * (V(1) - V(2)), V(2)), 4)
                   /\ price_acceleration.acceleration
                         = Round(RSub(Rat(100 * (V(1) - V(2)), V(2)),
                                      Rat(100 * (V(2) - V(3)), V(3))), 4)

\* an 11-value series whose first value lies outside the trailing 10, with
\* changing velocity, handled by all three functions
C20_Witness ==
    /\ rsi_acceleration.kind = "value"
    /\ price_acceleration.kind = "value"
    /\ obv_acceleration.kind = "value"
    /\ Len(acc_series) = 11
    /\ Velocity # 0
    /\ Velocity # PriorVelocity
    /\ TrailingRange = 3
    /\ price_acceleration.velocity # Num(Velocity)
    /\ obv_acceleration.velocity # Rat(100 * Velocity, TrailingRange)

----------------------------------------------------------------------------
(* Claims about fetch_all_data and the refresh handler *)

Records == {run.result[i] : i \in 1..Len(run.result)}

\* the days_in_zone of the lifecycle that belongs to the record's direction
LifecycleDays(r) ==
    LET lc == IF r.signal_direction = "long" THEN r.lifecycle_oversold
              ELSE r.lifecycle_overbought
    IN  IF lc.kind = "value" THEN lc.days_in_zone ELSE 0

\* C21: every record is long exactly when its daily RSI is below 50 and short
\* otherwise; the days_in_zone fed to its opportunity score is that of the
\* oversold lifecycle for a long record and of the overbought lifecycle for
\* a short one (0 without a lifecycle); the freshness multiplier is below
\* 1.0 only when the daily RSI is below 30 (long) or above 70 (short).
C21_SignalDirection ==
    /\ \A r \in Records :
          /\ r.signal_direction = (IF r.daily_rsi < 50 THEN "long" ELSE "short")
          /\ r.opportunity_score.freshness_multiplier = Freshness(LifecycleDays(r))
          /\ RLess(r.opportunity_score.freshness_multiplier, Num(1)) =>
                \/ r.signal_direction = "long" /\ r.daily_rsi < 30
                \/ r.signal_direction = "short" /\ r.daily_rsi > 70
    /\ run.result # << >> =>
          run.opportunity_factors.days_in_zone
              = LifecycleDays(run.result[Len(run.result)])

\* one run with a long record three days below 30 and a short record at
\* exactly 50
C21_Witness ==
    /\ pc = "returned"
    /\ \E r \in Records :
          /\ r.daily_rsi < 30 /\ r.signal_direction = "long"
          /\ r.lifecycle_oversold.days_in_zone = 3
          /\ r.opportunity_score.freshness_multiplier = Rat(8, 10)
    /\ \E r \in Records :
          /\ r.daily_rsi = 50 /\ r.signal_direction = "short"
          /\ r.opportunity_score.freshness_multiplier = Num(1)
    /\ \E r \in Records :
          /\ r.daily_rsi > 70 /\ r.signal_direction = "short"
          /\ r.lifecycle_overbought.days_in_zone = 3

\* the length conditions under which the detectors are documented to be
\* undefined
BelowMinimum(call) ==
    LET n == Len(call.series)
        m == Len(call.other)
    IN  CASE call.fn \in {"calculate_rsi", "calculate_rsi_history"} -> n < call.param + 1
          [] call.fn = "detect_regime" -> n < 4
          [] call.fn = "calculate_zscore" -> n < 10
          [] call.fn = "calculate_beta_adjusted_rsi" -> n < 30 \/ m < 30 \/ n # m
          [] call.fn = "detect_volatility_regime" -> n < 4 * call.param + 1
          [] call.fn = "detect_divergence" -> n < call.param \/ m < call.param \/ n # m
          [] call.fn = "classify_signal_lifecycle" -> n < 5
          [] OTHER -> n < 3

\* None, or the empty list for calculate_rsi_history
IsSentinel(call, result) ==
    IF call.fn = "calculate_rsi_history"
    THEN result.kind = "value" /\ result.vals = << >>
    ELSE result.kind = "None"

IsDefined(call, result) ==
    /\ result.kind = "value"
    /\ call.fn = "calculate_rsi_history" => result.vals # << >>

\* calculate_price_acceleration divides by the two earlier prices
ZeroDivisor(call) ==
    /\ call.fn = "calculate_price_acceleration"
    /\ Len(call.series) >= 3
    /\ 0 \in {FromEnd(call.series, 2), FromEnd(call.series, 3)}

\* C22 as stated: the sentinel below the minimum, a defined record from the
\* minimum on, for every detector.
C22_AsStated ==
    det_result.kind # "pending" =>
        IF BelowMinimum(det_call) THEN IsSentinel(det_call, det_result)
        ELSE IsDefined(det_call, det_result)

\* C22: below its minimum (or with series of unequal lengths, for the two
\* detectors that take two series) each detector returns its sentinel, None
\* or the empty list, and never raises; from the minimum on it returns a
\* defined record, except that calculate_price_acceleration returns None
\* when one of the two prices it divides by is 0.
C22_Sentinels ==
    det_result.kind # "pending" =>
        IF BelowMinimum(det_call) \/ ZeroDivisor(det_call)
        THEN IsSentinel(det_call, det_result)
        ELSE IsDefined(det_call, det_result)

\* three prices, the middle one 0: None although the minimum is met
C22_Witness ==
    /\ det_call.fn = "calculate_price_acceleration"
    /\ det_call.series = <<1, 0, 2>>
    /\ det_result.kind = "None"

\* the watchlist entries the main loop has been through
Processed == {coin_ids[i] : i \in 1..(run.next - 1)}

\* missing from the market data or from the history, or without a daily or
\* a weekly RSI
MissingOrUndefined(coin_id) ==
    \/ coin_id \notin DOMAIN market_lookup
    \/ coin_id \notin DOMAIN charts
    \/ charts[coin_id].daily_rsi_history = << >>
    \/ charts[coin_id].weekly_rsi_history = << >>

\* C23: failed_count plus the number of records is the number of watchlist
\* entries; an entry is failed exactly when it is missing from the market
\* data or the history or its daily or weekly RSI is undefined; a failed
\* entry does not keep later entries from being processed.
C23_FailedCount ==
    pc \in {"main_loop", "returned"} =>
        /\ run.failed_count + Len(run.result) = run.next - 1
        /\ run.failed_count = Cardinality({c \in Processed : MissingOrUndefined(c)})
        /\ {r.id : r \in Records} = {c \in Processed : ~MissingOrUndefined(c)}
        /\ pc = "returned" => run.next - 1 = Len(coin_ids)

\* the first entry failed, the two after it have records
C23_Witness ==
    /\ pc = "returned"
    /\ MissingOrUndefined(coin_ids[1])
    /\ run.failed_count = 1
    /\ Len(run.result) = 2

\* the entries counted in failed_count
FailedEntries == {c \in Processed : MissingOrUndefined(c)}

\* the members of every sector of a sector result
SectorMembers(sectors) ==
    UNION {{sectors[s].coins[i] : i \in 1..Len(sectors[s].coins)} : s \in DOMAIN sectors}

\* C24 as stated: an entry counted in the failure tally is a member of no
\* sector RSI (from which the best/worst ranking is taken), of no sector
\* momentum or rotation signal and of no Total3 average of that refresh.
C24_AsStated ==
    pc = "returned" =>
        \A c \in FailedEntries :
            /\ c \notin SectorMembers(run.sector_rsi[1])
            /\ c \notin SectorMembers(run.sector_momentum[1])
            /\ \A i \in 1..Len(run.total3[1].members) : run.total3[1].members[i] # c

\* the entries with market data, a chart and a daily RSI
SectorEligible ==
    {c \in {coin_ids[i] : i \in 1..Len(coin_ids)} :
        /\ c \in DOMAIN market_lookup /\ c \in DOMAIN charts
        /\ charts[c].daily_rsi_history # << >>}

\* the benchmarks and the sector momentum are there from the first iteration
\* of the main loop on, the momentum over every eligible entry
AggregatesFirst ==
    /\ pc \in {"sector_pre", "main_loop", "returned"} =>
          /\ run.bench = <<Benchmarks(charts)>>
          /\ run.total3 = <<Total3(coin_ids, market_lookup, charts)>>
    /\ pc \in {"main_loop", "returned"} =>
          /\ run.sector_momentum # << >>
          /\ SectorMembers(run.sector_momentum[1]) = SectorEligible
    /\ pc \in {"fetch", "hourly", "benchmarks", "sector_pre"} =>
          run.result = << >> /\ run.opportunity_factors = EmptyDict

\* an iteration of the main loop leaves the aggregates and the records of
\* the earlier entries as they are, and the record it appends is made of
\* the entry's own market data and chart and of the aggregates
OwnSeriesOnly ==
    pc = "main_loop" /\ pc' = "main_loop" =>
        /\ run'.bench = run.bench
        /\ run'.total3 = run.total3
        /\ run'.sector_momentum = run.sector_momentum
        /\ SubSeq(run'.result, 1, Len(run.result)) = run.result
        /\ Len(run'.result) > Len(run.result) =>
              LET c == coin_ids[run.next]
              IN  run'.result[Len(run'.result)]
                     = CoinRecord(c, market_lookup[c], charts[c], run.bench[1],
                                  run.total3[1], run.sector_momentum[1]).coin_data

\* C25: the benchmark returns and RSI (BTC, ETH, Total3) are computed before
\* the first per-asset beta, the sector momentum is computed from every
\* eligible entry before the first opportunity score, and no record reads
\* another entry's record.
C25_AggregatesBeforeRecords == []AggregatesFirst /\ [][OwnSeriesOnly]_vars

\* a second record is appended after a first one, with a Total3 benchmark
\* and a sector momentum in place
C25_Witness ==
    /\ pc = "main_loop"
    /\ Len(run.result) = 2
    /\ run.total3[1].returns # << >>
    /\ run.bench[1].btc_returns # << >>
    /\ run.result[2].beta_info_total3.kind = "value"
    /\ DOMAIN run.sector_momentum[1] = {"DeFi", "L1"}

\* the session holds what an earlier refresh of this behaviour returned: the
\* provider's answers and the hourly cache are the same for every refresh
EarlierRun == session.last_updated # << >> /\ session.last_updated[1] >= 0

C27_SameHistory ==
    /\ hst_rsi.kind # "pending" /\ hst_history.kind # "pending" =>
          /\ hst_history.kind = "value"
          /\ (hst_rsi.kind = "value") = (hst_history.vals # << >>)
          /\ (hst_rsi.kind = "None") = (hst_history.vals = << >>)
          /\ hst_history.vals # << >> =>
                hst_rsi.val = hst_history.vals[Len(hst_history.vals)]
    /\ hst_history.kind # "pending" /\ hst_app_history.kind # "pending" =>
          hst_app_history = hst_history
    /\ hst_history.kind # "pending" /\ hst_nested_history.kind # "pending" =>
          hst_nested_history = hst_history

\* four closes, period 2: a history of two different values from each
\* implementation, the RSI being the second
C27_Witness ==
    /\ hst_closes = <<1, 2, 1, 4>>
    /\ hst_period = 2
    /\ hst_rsi.kind = "value"
    /\ Len(hst_history.vals) = 2
    /\ hst_history.vals[1] # hst_history.vals[2]
    /\ hst_app_history = hst_history
    /\ hst_nested_history = hst_history
    /\ hst_rsi.val = hst_history.vals[2]

\* the divergence type fetch_all_data derives from an entry's own chart
AssetDivergenceType(c) ==
    IF charts[c].daily_div = PyNone THEN "none" ELSE charts[c].daily_div.type

WatchlistIndex(c) == CHOOSE i \in 1..Len(coin_ids) : coin_ids[i] = c

\* same length, the i-th divergence entry from the asset of the i-th record,
\* the records in watchlist order
Paired(records, divergences) ==
    /\ Len(divergences) = Len(records)
    /\ \A i \in 1..Len(records) : divergences[i].type = AssetDivergenceType(records[i].id)
    /\ \A i \in 1..Len(records) : \A j \in (i + 1)..Len(records) :
          WatchlistIndex(records[i].id) < WatchlistIndex(records[j].id)

\* C28: the divergence list has the length of the record list, its i-th
\* entry comes from the asset of the i-th record, the records are in
\* watchlist order, and the page's sector filter keeps the two lists paired.
C28_PairedLists ==
    /\ pc \in {"main_loop", "returned"} => Paired(run.result, run.divergence_result)
    /\ EarlierRun =>
          /\ Paired(session.coin_data[1], session.divergence_data[1])
          /\ \A s \in {"L1", "DeFi", "Other"} :
                Paired(FilteredCoinData(s), FilteredDivergenceData(s))

\* three records stored, the filter on L1 keeps the second and the third
\* with their divergence entries, of which only the first is bullish
C28_Witness ==
    /\ EarlierRun
    /\ Len(session.coin_data[1]) = 3
    /\ Len(FilteredCoinData("L1")) = 2
    /\ FilteredCoinData("L1")[1].id = "bitcoin"
    /\ FilteredDivergenceData("L1")[1].type = "bullish"
    /\ FilteredDivergenceData("L1")[2].type = "none"
    /\ session.divergence_data[1][1].type = "none"

\* the refresh under way is past the hourly step of fetch_all_data, or has
\* ended in it
HourlyStepTaken ==
    \/ pc \in {"benchmarks", "sector_pre", "main_loop", "returned"}
    \/ pc = "raised" /\ run.error \notin {"", "CoinGeckoError"}

\* C29 as stated: the hourly history is requested from the provider exactly
\* when the cache is not valid, and after the request the cache holds the
\* fetched history with the time of the refresh, so that it is valid for
\* the next 60 minutes.
C29_AsStated ==
    HourlyStepTaken =>
        /\ ("hourly" \in run.requests) = ~run.cache_valid
        /\ ~run.cache_valid =>
              /\ hourly_cache.kind = "ok"
              /\ hourly_cache.last_updated = now
              /\ is_hourly_cache_valid(hourly_cache, now + HOURLY_CACHE_TTL_MINUTES - 1)

\* a step of a refresh: only the step after the return of fetch_all_data
\* changes the session values or the data file, and it replaces the six
\* session values together by what the run returned
SessionReplacedOnReturn ==
    /\ pc # "returned" => session' = session /\ data_file' = data_file
    /\ pc = "returned" =>
          /\ session'.coin_data = <<run.result>>
          /\ session'.divergence_data = <<run.divergence_result>>
          /\ session'.last_updated = <<now>>
          /\ session'.failed_coins = run.failed_count
          /\ session'.btc_regime = run.bench[1].btc_regime
          /\ session'.btc_weekly_rsi = run.bench[1].btc_weekly_rsi
          /\ data_file' # data_file => data_file'[1].coin_data = <<run.result>>

\* C30: if fetch_all_data raises, the session's coin_data, divergence_data,
\* last_updated, failed_coins, btc_regime and btc_weekly_rsi keep their
\* values and the data file is not rewritten; they are replaced, together,
\* only after fetch_all_data has returned.
C30_KeptOnFailure == [][SessionReplacedOnReturn]_vars

\* a refresh has raised while the session holds the records of an earlier
\* refresh
C30_Witness ==
    /\ pc = "raised"
    /\ run.error = "AttributeError"
    /\ EarlierRun
    /\ session.coin_data[1] # << >>
    /\ data_file # << >>
    /\ data_file[1].coin_data = session.coin_data

====
